---- MODULE Spec2Model ----
(***************************************************************************)
(* tapirus: the unit-generator graph runtime (ugens/core.rs, ugens/osc.rs, *)
(* ugens/fx.rs), the sound system callback (soundsystem.rs) and the graph  *)
(* serializer (tapirlisp/dump.rs).                                         *)
(*                                                                         *)
(* Nodes live in a store indexed by node identity (the Arc pointer of an   *)
(* Aug).  f64 values are fixed-point integers in units of 1/Scale.         *)
(***************************************************************************)
EXTENDS Integers, Sequences, FiniteSets, TLC

\* ------------------------------------------------------------------ bounds
MaxNodes == 7
MaxTick == 2
MaxOps == 1
MaxBuf == 3
SampleRate == 4
MaxSamples == 10
MaxHandles == 4
MaxHandleOps == 3
MaxToks == 2
MaxCalls == 3

\* f64 is modelled as fixed point: the integer x stands for x / Scale
Scale == 1000

NodeIds == 1..MaxNodes
Root == 1

\* ------------------------------------------------------- fixed-point f64
TruncDiv(a, b) == IF a >= 0 THEN a \div b ELSE -((-a) \div b)
FxMul(a, b) == TruncDiv(a * b, Scale)
\* f64::floor, f64::ceil, f64::fract and `x % 1.0` (sign of the dividend)
FxFloor(a) == (a \div Scale) * Scale
FxCeil(a) == -(((-a) \div Scale) * Scale)
FxFract(a) == a - TruncDiv(a, Scale) * Scale
FxRem1(a) == FxFract(a)
\* `x as u64` / `x as usize`: truncates toward zero, negatives saturate to 0
AsU64(a) == IF a <= 0 THEN 0 ELSE a \div Scale
\* f64 `/`; x / 0.0 (an infinity or a NaN) has no fixed-point value and is
\* read as 0.0
FxDiv(a, b) == IF b = 0 THEN 0 ELSE TruncDiv(a * Scale, b)
\* std::f64::consts::PI
Pi == (355 * Scale) \div 113
\* f64::sin and f64::cos, by Bhaskara's rational approximation
FxSinArc(p) == (16 * p * Scale) \div (5 * ((Pi * Pi) \div Scale) - 4 * p)
FxSinHalf(z) == FxSinArc((z * (Pi - z)) \div Scale)
FxSinRed(y) == IF y > Pi THEN -FxSinHalf(y - Pi) ELSE FxSinHalf(y)
FxSin(x) == FxSinRed(x % (2 * Pi))
FxCos(x) == FxSin(x + Pi \div 2)
RECURSIVE FxPow(_, _)
FxPow(a, n) == IF n = 0 THEN Scale ELSE FxMul(FxPow(a, n - 1), a)

\* ------------------------------------------------------------ data model
OscKinds == {"sine", "tri", "saw", "pulse", "rand", "phase", "wavetable", "oneshot"}
EgKinds == {"adsr"}
ProcKinds == {"lpf", "delay"}
LeafKinds == {"val", "tab", "pat"}

\* UGen::new: last_tick = 0, last_sig = (0.0, 0.0), plus the variant payload
UGenNew(kind, slots, val, table) ==
    [kind |-> kind, slots |-> slots, val |-> val, table |-> table,
     last_tick |-> 0, last_sig |-> <<0, 0>>,
     ph |-> 0, count |-> 0, draws |-> 0, v |-> 0,
     state |-> "None", buffer |-> <<>>,
     inbuf |-> <<<<0, 0>>, <<0, 0>>>>, outbuf |-> <<<<0, 0>>, <<0, 0>>>>,
     root |-> 0]

FreeNode == UGenNew("free", <<>>, 0, <<>>)

\* Aug::val, Table nodes
AugVal(v) == UGenNew("val", <<>>, v, <<>>)
AugTab(t) == UGenNew("tab", <<>>, 0, t)

\* Sine::new, Tri::new, Saw::new, Pulse::new
OscNew(kind, slots) == UGenNew(kind, slots, 0, <<>>)

\* Rand::new: count = 0, v = 0.15, rng seeded with 0
RandNew(freq) == [UGenNew("rand", <<freq>>, 0, <<>>) EXCEPT !.v = (15 * Scale) \div 100]

\* Phase::new: `root: Phase::make_root(u.clone()), osc: u.clone()`; root is
\* kept as the node the chain offset(gain(clip(..))) was built over
PhaseNew(u) == [UGenNew("phase", <<u>>, 0, <<>>) EXCEPT !.root = u]

\* WaveTable::from_table, OneshotOsc::new
WaveTableNew(table, ph) == UGenNew("wavetable", <<table, ph>>, 0, <<>>)
OneshotNew(osc, eg) == UGenNew("oneshot", <<osc, eg>>, 0, <<>>)

\* Delay::new: a buffer of 2 * sample_rate zero samples
DelayNew(time, feedback, mix, src, sample_rate) ==
    [UGenNew("delay", <<time, feedback, mix, src>>, 0, <<>>)
        EXCEPT !.buffer = [i \in 1..(sample_rate * 2) |-> <<0, 0>>]]

\* LPFilter::new: two samples of input and of output history, all zero
LPFilterNew(freq, q, src) == UGenNew("lpf", <<freq, q, src>>, 0, <<>>)

\* an envelope generator in a given ADSR state (set_state by a sequencer)
EgNew(state) == [UGenNew("adsr", <<>>, 0, <<>>) EXCEPT !.state = state]

\* the parameter names of each operator, in declaration order
SlotNames(kind) ==
    CASE kind \in {"sine", "tri", "saw"} -> <<"init_ph", "freq">>
      [] kind = "pulse" -> <<"init_ph", "freq", "duty">>
      [] kind = "rand" -> <<"freq">>
      [] kind = "phase" -> <<"osc">>
      [] kind = "wavetable" -> <<"table", "ph">>
      [] kind = "oneshot" -> <<"osc", "eg">>
      [] kind = "lpf" -> <<"freq", "q", "src">>
      [] kind = "delay" -> <<"time", "feedback", "mix", "src">>
      [] OTHER -> <<>>

\* a `match pname` whose catch-all arm falls into the first parameter
SlotIndexOrFirst(kind, pname) ==
    LET names == SlotNames(kind)
        hits == {i \in 1..Len(names) : names[i] = pname}
    IN IF hits = {} THEN (IF names = <<>> THEN 0 ELSE 1) ELSE CHOOSE i \in hits : TRUE

\* the arm of `match pname` a name selects; 0 is the catch-all arm
SlotIndex(kind, pname) ==
    LET names == SlotNames(kind)
        hits == {i \in 1..Len(names) : names[i] = pname}
    IN IF hits = {} THEN 0 ELSE CHOOSE i \in hits : TRUE

Kids(ug, n) == {ug[n].slots[i] : i \in 1..Len(ug[n].slots)}

\* nodes referenced, directly and transitively, by the parameters of n
RECURSIVE Closure(_, _)
Closure(ug, S) ==
    LET T == S \cup UNION {Kids(ug, k) : k \in S}
    IN IF T = S THEN S ELSE Closure(ug, T)

Descendants(ug, n) == Closure(ug, Kids(ug, n))

Acyclic(ug) == \A n \in NodeIds : n \notin Descendants(ug, n)

IsOsc(ug, n) == ug[n].kind \in OscKinds
IsEg(ug, n) == ug[n].kind \in EgKinds

\* ------------------------------------------------------------ evaluation
\* The context threaded through one root.proc call: the store, the number
\* of times each node's variant body ran, the number of proc calls each
\* node received and the signals those calls returned (instrumentation),
\* the node mutexes the evaluating thread
\* holds, and whether the call panicked ("panic") or locked a mutex it
\* already holds ("relock").
Ctx(ug, sample_rate) ==
    [ug |-> ug, sr |-> sample_rate, runs |-> [n \in DOMAIN ug |-> 0], calls |-> [n \in DOMAIN ug |-> 0],
     rets |-> [n \in DOMAIN ug |-> {}], held |-> {}, err |-> "ok"]
Fail(c, e) == [c EXCEPT !.err = IF c.err = "ok" THEN e ELSE c.err]
Res(c, sig) == [c |-> c, sig |-> sig]
Mono(v) == <<v, v>>

\* Osc::get_ph of the variant of node n, whose mutex the caller holds
RECURSIVE GetPh(_, _, _)
GetPh(ug, n, held) ==
    LET via(m) == \* if let UG::Osc(osc) = m.0.lock().unwrap().ug { osc.get_ph() } else { 0.0 }
            IF m \in held THEN [ok |-> FALSE, ph |-> 0]
            ELSE IF IsOsc(ug, m) THEN GetPh(ug, m, held \cup {m})
            ELSE [ok |-> TRUE, ph |-> 0]
    IN CASE ug[n].kind \in {"sine", "tri", "saw", "pulse"} -> [ok |-> TRUE, ph |-> ug[n].ph]
         [] ug[n].kind \in {"phase", "oneshot"} -> via(ug[n].slots[1])
         [] ug[n].kind = "wavetable" -> via(ug[n].slots[2])
         [] OTHER -> [ok |-> TRUE, ph |-> 0]

\* Osc::set_ph of the variant of node n, whose mutex the caller holds
RECURSIVE SetPh(_, _, _, _)
SetPh(ug, n, held, ph) ==
    LET via(m) ==
            IF m \in held THEN [ok |-> FALSE, ug |-> ug]
            ELSE IF IsOsc(ug, m) THEN SetPh(ug, m, held \cup {m}, ph)
            ELSE [ok |-> TRUE, ug |-> ug]
    IN CASE ug[n].kind \in {"sine", "tri", "saw", "pulse"} ->
                [ok |-> TRUE, ug |-> [ug EXCEPT ![n].ph = ph]]
         [] ug[n].kind \in {"phase", "oneshot"} -> via(ug[n].slots[1])
         [] ug[n].kind = "wavetable" -> via(ug[n].slots[2])
         [] OTHER -> [ok |-> TRUE, ug |-> ug]

\* SmallRng::seed_from_u64(0): a fixed stream of values in [0, 1)
RngGen(k) == (k * 379 + 123) % Scale

\* Phase::make_root: offset 1.0 of gain 0.5 of clip [-1, 1]
PhaseRoot(x) ==
    LET clipped == IF x < -Scale THEN -Scale ELSE IF x > Scale THEN Scale ELSE x
    IN FxMul(clipped, Scale \div 2) + Scale

\* fn linear_interpol
linear_interpol(v1, v2, r) ==
    LET r1 == FxRem1(r) IN FxMul(v1, r1) + FxMul(v2, Scale - r1)

\* a conversion that rounds a fraction of a sample up
sec_to_sample_num_up(sec, sample_rate) ==
    IF sample_rate * sec <= 0 THEN 0 ELSE (sample_rate * sec + Scale - 1) \div Scale

\* fn sec_to_sample_num
sec_to_sample_num(sec, sample_rate) == AsU64(sample_rate * sec)

RECURSIVE DelaySum(_, _, _, _, _)
\* a feedback sum whose taps all weigh fb, whatever their distance
DelaySumFlat(buffer, dt, fb, n, ch) ==
    IF dt # 0 /\ n * dt < Len(buffer)
    THEN FxMul(buffer[n * dt + 1][ch], fb) + DelaySum(buffer, dt, fb, n + 1, ch)
    ELSE 0

\* the feedback sum of Delay::proc, channel ch, from tap n on
DelaySum(buffer, dt, fb, n, ch) ==
    IF dt # 0 /\ n * dt < Len(buffer)
    THEN FxMul(buffer[n * dt + 1][ch], FxPow(fb, n)) + DelaySum(buffer, dt, fb, n + 1, ch)
    ELSE 0

RECURSIVE AugProc(_, _, _), UGenProc(_, _, _), UGProc(_, _, _)

\* a saw that never wraps to the negative half
SawProcNoWrap(c, n, tick) ==
    LET s == c.ug[n].slots
        r1 == AugProc(c, s[1], tick)
        ph == r1.sig[1] + r1.c.ug[n].ph
        r2 == AugProc(r1.c, s[2], tick)
        c2 == [r2.c EXCEPT !.ug[n].ph = @ + TruncDiv(r2.sig[1], c.sr * 2)]
    IN Res(c2, Mono(2 * FxRem1(ph)))

\* impl Proc for Saw / Tri / Pulse
SawProc(c, n, tick) ==
    LET s == c.ug[n].slots
        r1 == AugProc(c, s[1], tick)
        ph == r1.sig[1] + r1.c.ug[n].ph
        r2 == AugProc(r1.c, s[2], tick)
        c2 == [r2.c EXCEPT !.ug[n].ph = @ + TruncDiv(r2.sig[1], c.sr * 2)]
        x == FxRem1(ph)
        v == IF 2 * x >= Scale THEN 2 * x - 2 * Scale ELSE 2 * x
    IN Res(c2, Mono(v))

TriProc(c, n, tick) ==
    LET s == c.ug[n].slots
        r1 == AugProc(c, s[1], tick)
        ph == r1.sig[1] + r1.c.ug[n].ph
        r2 == AugProc(r1.c, s[2], tick)
        c2 == [r2.c EXCEPT !.ug[n].ph = @ + TruncDiv(r2.sig[1], c.sr * 2)]
        x == FxRem1(ph)
        v == IF 4 * x >= 3 * Scale THEN 4 * x - 4 * Scale
             ELSE IF 4 * x >= Scale THEN 2 * Scale - 4 * x
             ELSE 4 * x
    IN Res(c2, Mono(v))

PulseProc(c, n, tick) ==
    LET s == c.ug[n].slots
        r1 == AugProc(c, s[1], tick)
        ph == r1.sig[1] + r1.c.ug[n].ph
        r3 == AugProc(r1.c, s[3], tick)
        r2 == AugProc(r3.c, s[2], tick)
        c2 == [r2.c EXCEPT !.ug[n].ph = @ + TruncDiv(r2.sig[1], c.sr * 2)]
        x == FxRem1(ph)
        v == IF x < r3.sig[1] THEN Scale ELSE -Scale
    IN Res(c2, Mono(v))

\* impl Proc for Sine
SineProc(c, n, tick) ==
    LET s == c.ug[n].slots
        r1 == AugProc(c, s[1], tick)
        v == FxSin(r1.sig[1] + r1.c.ug[n].ph)
        ph_diff == FxDiv(c.sr * Scale, Pi)
        r2 == AugProc(r1.c, s[2], tick)
        c2 == [r2.c EXCEPT !.ug[n].ph = @ + FxDiv(r2.sig[1], ph_diff)]
    IN Res(c2, Mono(v))

\* impl Proc for Rand
\* a comparison that lets the counter pass the period before a draw
RandDueAfter(count, freq) == count > AsU64(freq)

\* `self.count >= self.freq.proc(transport).0 as u64`
RandDue(count, freq) == count >= AsU64(freq)

RandProc(c, n, tick) ==
    LET r == AugProc(c, c.ug[n].slots[1], tick)
        me == r.c.ug[n]
        me2 == IF RandDue(me.count, r.sig[1])
               THEN [me EXCEPT !.v = RngGen(me.draws), !.draws = @ + 1, !.count = 0]
               ELSE [me EXCEPT !.count = @ + 1]
    IN Res([r.c EXCEPT !.ug[n] = me2], Mono(me2.v))

\* impl Proc for Phase
PhaseProc(c, n, tick) ==
    LET r == AugProc(c, c.ug[n].root, tick)
    IN Res(r.c, <<PhaseRoot(r.sig[1]), PhaseRoot(r.sig[2])>>)

\* impl Proc for WaveTable
WaveTableProc(c, n, tick) ==
    LET t == c.ug[n].slots[1]
        p == c.ug[n].slots[2]
    IN IF t \in c.held THEN Res(Fail(c, "relock"), <<0, 0>>)
       ELSE IF c.ug[t].kind # "tab" THEN Res(Fail(c, "panic"), <<0, 0>>)
       ELSE LET table == c.ug[t].table
                len == Len(table)
                r == AugProc([c EXCEPT !.held = @ \cup {t}], p, tick)
                c1 == [r.c EXCEPT !.held = c.held]
                pp == r.sig[1] * len
                idx(x) == IF len = 0 \/ x <= 0 THEN 0 ELSE (x \div Scale) % len
                pos1 == idx(FxFloor(pp))
                pos2 == idx(FxCeil(pp))
            IN IF r.c.err # "ok" THEN Res(c1, <<0, 0>>)
               ELSE IF pos1 >= len \/ pos2 >= len THEN Res(Fail(c1, "panic"), <<0, 0>>)
               ELSE Res(c1, Mono(linear_interpol(table[pos1 + 1], table[pos2 + 1], FxFract(pp))))

\* a reset that puts the phase back and leaves the envelope as it is
OneshotResetPhase(c, osc, eg) ==
    IF osc \in c.held THEN Fail(c, "relock")
    ELSE LET r == IF IsOsc(c.ug, osc) THEN SetPh(c.ug, osc, c.held \cup {osc}, 0)
                  ELSE [ok |-> TRUE, ug |-> c.ug]
         IN IF ~r.ok \/ eg \in c.held THEN Fail(c, "relock")
            ELSE [c EXCEPT !.ug = r.ug]

\* `if let UG::Osc(osc) = &mut osc.0.lock().unwrap().ug { osc.set_ph(0.0) }`
\* `if let UG::Eg(eg) = &mut eg.0.lock().unwrap().ug { eg.set_state(ADSR::None, 0) }`
OneshotReset(c, osc, eg) ==
    IF osc \in c.held THEN Fail(c, "relock")
    ELSE LET r == IF IsOsc(c.ug, osc) THEN SetPh(c.ug, osc, c.held \cup {osc}, 0)
                  ELSE [ok |-> TRUE, ug |-> c.ug]
         IN IF ~r.ok \/ eg \in c.held THEN Fail(c, "relock")
            ELSE IF IsEg(r.ug, eg) THEN [c EXCEPT !.ug = [r.ug EXCEPT ![eg].state = "None"]]
            ELSE [c EXCEPT !.ug = r.ug]

\* impl Proc for OneshotOsc
OneshotProc(c, n, tick) ==
    LET osc == c.ug[n].slots[1]
        eg == c.ug[n].slots[2]
        r1 == AugProc(c, eg, tick)
        c1 == r1.c
        both == IsOsc(c1.ug, osc) /\ IsEg(c1.ug, eg)
        relock == osc \in c1.held \/ (IsOsc(c1.ug, osc) /\ eg \in c1.held \cup {osc})
        got == IF both /\ ~relock THEN GetPh(c1.ug, osc, c1.held \cup {osc, eg})
               ELSE [ok |-> ~relock, ph |-> 0]
        state == IF both /\ got.ok THEN c1.ug[eg].state ELSE "None"
    IN IF c1.err # "ok" THEN Res(c1, <<0, 0>>)
       ELSE IF ~got.ok THEN Res(Fail(c1, "relock"), <<0, 0>>)
       ELSE IF state \in {"Attack", "Decay", "Sustin"}
       THEN LET r2 == AugProc(c1, osc, tick)
            IN IF r2.c.err # "ok" THEN Res(r2.c, <<0, 0>>)
               ELSE IF got.ph >= Scale THEN Res(OneshotReset(r2.c, osc, eg), Mono(r2.sig[1]))
               ELSE Res(r2.c, Mono(r2.sig[1]))
       ELSE Res(OneshotReset(c1, osc, eg), <<0, 0>>)

\* a delay that pushes the new sample without dropping the oldest
DelayProcNoPop(c, n, tick) ==
    LET s == c.ug[n].slots
        r4 == AugProc(c, s[4], tick)
        buffer == <<r4.sig>> \o r4.c.ug[n].buffer
        r1 == AugProc([r4.c EXCEPT !.ug[n].buffer = buffer], s[1], tick)
        r2 == AugProc(r1.c, s[2], tick)
        r3 == AugProc(r2.c, s[3], tick)
    IN Res(r3.c, r4.sig)

\* impl Proc for Delay
DelayProc(c, n, tick) ==
    LET s == c.ug[n].slots
        popped == SubSeq(c.ug[n].buffer, 1, Len(c.ug[n].buffer) - 1)
        r4 == AugProc([c EXCEPT !.ug[n].buffer = popped], s[4], tick)
        sig == r4.sig
        buffer == <<sig>> \o r4.c.ug[n].buffer
        r1 == AugProc([r4.c EXCEPT !.ug[n].buffer = buffer], s[1], tick)
        dt == sec_to_sample_num(r1.sig[1], c.sr)
        r2 == AugProc(r1.c, s[2], tick)
        r3 == AugProc(r2.c, s[3], tick)
        dl == DelaySum(buffer, dt, r2.sig[1], 1, 1)
        dr == DelaySum(buffer, dt, r2.sig[1], 1, 2)
    IN Res(r3.c, <<sig[1] + FxMul(dl, r3.sig[1]), sig[2] + FxMul(dr, r3.sig[1])>>)

\* impl Proc for LPFilter
LPFilterCoef(freq, q, sample_rate) ==
    LET w == TruncDiv(FxMul(2 * Pi, freq), sample_rate)
        sw == FxSin(w)
        cw == FxCos(w)
        a == FxDiv(sw, 2 * q)
    IN [b0 |-> (Scale - cw) \div 2, b1 |-> Scale - cw, b2 |-> (Scale - cw) \div 2,
        a0 |-> Scale + a, a1 |-> -2 * cw, a2 |-> Scale - a]
LPFilterFilter(k, v, in0, in1, out0, out1) ==
    FxMul(FxDiv(k.b0, k.a0), v) + FxMul(FxDiv(k.b1, k.a0), in0)
    + FxMul(FxDiv(k.b2, k.a0), in1)
    - FxMul(FxDiv(k.a1, k.a0), out0) - FxMul(FxDiv(k.a2, k.a0), out1)
LPFilterStepCrossed(c, n, k, sig) ==
    LET me == c.ug[n]
        l == LPFilterFilter(k, sig[1], me.inbuf[1][1], me.inbuf[2][1],
                            me.outbuf[1][1], me.outbuf[2][1])
        r == LPFilterFilter(k, sig[2], me.inbuf[1][1], me.inbuf[2][1],
                            me.outbuf[1][1], me.outbuf[2][1])
    IN Res([c EXCEPT !.ug[n] = [me EXCEPT !.inbuf = <<sig, me.inbuf[1]>>,
                                          !.outbuf = <<<<l, r>>, me.outbuf[1]>>]],
           <<l, r>>)
LPFilterStep(c, n, k, sig) ==
    LET me == c.ug[n]
        l == LPFilterFilter(k, sig[1], me.inbuf[1][1], me.inbuf[2][1],
                            me.outbuf[1][1], me.outbuf[2][1])
        r == LPFilterFilter(k, sig[2], me.inbuf[1][2], me.inbuf[2][2],
                            me.outbuf[1][2], me.outbuf[2][2])
    IN Res([c EXCEPT !.ug[n] = [me EXCEPT !.inbuf = <<sig, me.inbuf[1]>>,
                                          !.outbuf = <<<<l, r>>, me.outbuf[1]>>]],
           <<l, r>>)
LPFilterProc(c, n, tick) ==
    LET s == c.ug[n].slots
        rf == AugProc(c, s[1], tick)
        rq == AugProc(rf.c, s[2], tick)
        rs == AugProc(rq.c, s[3], tick)
    IN LPFilterStep(rs.c, n, LPFilterCoef(rf.sig[1], rq.sig[1], c.sr), rs.sig)

\* an envelope generator: emits its level; its state is changed by set_state
EgProc(c, n, tick) ==
    Res(c, Mono(IF c.ug[n].state = "None" THEN 0 ELSE Scale))

\* impl Proc for UG: dispatch on the variant; the body of every variant is
\* instrumented with the counter runs[n]
UGProc(c, n, tick) ==
    LET c0 == [c EXCEPT !.runs[n] = @ + 1]
        kind == c.ug[n].kind
    IN CASE kind = "val" -> Res(c0, Mono(c.ug[n].val))
         [] kind \in {"tab", "pat"} -> Res(c0, <<0, 0>>)
         [] kind = "sine" -> SineProc(c0, n, tick)
         [] kind = "lpf" -> LPFilterProc(c0, n, tick)
         [] kind = "saw" -> SawProc(c0, n, tick)
         [] kind = "tri" -> TriProc(c0, n, tick)
         [] kind = "pulse" -> PulseProc(c0, n, tick)
         [] kind = "rand" -> RandProc(c0, n, tick)
         [] kind = "phase" -> PhaseProc(c0, n, tick)
         [] kind = "wavetable" -> WaveTableProc(c0, n, tick)
         [] kind = "oneshot" -> OneshotProc(c0, n, tick)
         [] kind = "delay" -> DelayProc(c0, n, tick)
         [] kind = "adsr" -> EgProc(c0, n, tick)

\* UGen::proc without the last_tick test: the variant is evaluated on every call
UGenProcNoMemo(c, n, tick) ==
    LET r == UGProc([c EXCEPT !.ug[n].last_tick = tick], n, tick)
    IN IF r.c.err # "ok" THEN r
       ELSE Res([r.c EXCEPT !.ug[n].last_sig = r.sig], r.sig)

\* impl Proc for UGen: the per-tick memo
UGenProc(c, n, tick) ==
    IF c.ug[n].last_tick = tick
    THEN Res(c, c.ug[n].last_sig)
    ELSE LET r == UGProc([c EXCEPT !.ug[n].last_tick = tick], n, tick)
         IN IF r.c.err # "ok" THEN r
            ELSE Res([r.c EXCEPT !.ug[n].last_sig = r.sig], r.sig)

\* impl Proc for Aug: lock the node's mutex around UGen::proc
AugProc(c, n, tick) ==
    IF c.err # "ok" THEN Res(c, <<0, 0>>)
    ELSE IF n \in c.held THEN Res(Fail(c, "relock"), <<0, 0>>)
    ELSE LET r == UGenProc([c EXCEPT !.held = @ \cup {n}, !.calls[n] = @ + 1], n, tick)
         IN IF r.c.err # "ok" THEN Res([r.c EXCEPT !.held = c.held], r.sig)
            ELSE Res([r.c EXCEPT !.held = c.held, !.rets[n] = @ \cup {r.sig}], r.sig)

\* ------------------------------------------------- parameter reflection
\* str::parse::<f64> over the characters used here: an optional sign, then
\* digits with at most one '.', and at least one digit
Digits == <<"0", "1", "2", "3", "4", "5", "6", "7", "8", "9">>
DigitVal(ch) == (CHOOSE i \in 1..10 : Digits[i] = ch) - 1
IsDigit(ch) == \E i \in 1..10 : Digits[i] = ch

RECURSIVE IntOf(_)
IntOf(ds) == IF ds = <<>> THEN 0 ELSE IntOf(SubSeq(ds, 1, Len(ds) - 1)) * 10 + DigitVal(ds[Len(ds)])

RECURSIVE FracOf(_, _)
FracOf(ds, unit) ==
    IF ds = <<>> \/ unit = 0 THEN 0
    ELSE DigitVal(ds[1]) * unit + FracOf(Tail(ds), unit \div 10)

ParseF64(data) ==
    LET neg == data # <<>> /\ data[1] = "-"
        body == IF data # <<>> /\ data[1] \in {"-", "+"} THEN Tail(data) ELSE data
        dots == {i \in 1..Len(body) : body[i] = "."}
        wellformed == /\ \A i \in 1..Len(body) : IsDigit(body[i]) \/ body[i] = "."
                      /\ Cardinality(dots) <= 1
                      /\ \E i \in 1..Len(body) : IsDigit(body[i])
        dot == IF dots = {} THEN Len(body) + 1 ELSE CHOOSE i \in dots : TRUE
        mag == IntOf(SubSeq(body, 1, dot - 1)) * Scale
               + FracOf(SubSeq(body, dot + 1, Len(body)), Scale \div 10)
    IN IF wellformed THEN [ok |-> TRUE, v |-> IF neg THEN -mag ELSE mag]
       ELSE [ok |-> FALSE, v |-> 0]

\* String::retain(|c| !drop.contains(c))
Retain(data, drop) == SelectSeq(data, LAMBDA ch : ch \notin drop)

\* str::trim on spaces, and str::split(' ')
RECURSIVE TrimStart(_)
TrimStart(d) == IF d # <<>> /\ d[1] \in {" ", "\n"} THEN TrimStart(Tail(d)) ELSE d
RECURSIVE TrimEnd(_)
TrimEnd(d) ==
    IF d # <<>> /\ d[Len(d)] \in {" ", "\n"} THEN TrimEnd(SubSeq(d, 1, Len(d) - 1)) ELSE d
RECURSIVE Split(_)
Split(d) ==
    LET sp == {i \in 1..Len(d) : d[i] = " "}
    IN IF sp = {} THEN <<d>>
       ELSE LET i == CHOOSE j \in sp : \A k \in sp : j <= k
            IN <<SubSeq(d, 1, i - 1)>> \o Split(SubSeq(d, i + 1, Len(d)))

\* a parse that returns the numbers in front of the first token that is none
RECURSIVE ParsedPrefix(_)
ParsedPrefix(toks) ==
    IF toks = <<>> \/ ~ParseF64(toks[1]).ok THEN <<>>
    ELSE <<ParseF64(toks[1]).v>> \o ParsedPrefix(Tail(toks))

TableParseStrPartial(data) ==
    LET toks == Split(TrimEnd(TrimStart(data)))
    IN IF ParsedPrefix(toks) # <<>> THEN [ok |-> TRUE, table |-> ParsedPrefix(toks)]
       ELSE [ok |-> FALSE, table |-> <<>>]

\* Table::parse_str
TableParseStr(data) ==
    LET toks == Split(TrimEnd(TrimStart(data)))
    IN IF \A i \in 1..Len(toks) : ParseF64(toks[i]).ok
       THEN [ok |-> TRUE, table |-> [i \in 1..Len(toks) |-> ParseF64(toks[i]).v]]
       ELSE [ok |-> FALSE, table |-> <<>>]

\* the node a newly constructed Aug gets: the first unused identity
Allocated(ug) == {n \in NodeIds : ug[n].kind # "free"}
HasFree(ug) == Allocated(ug) # NodeIds
Fresh(ug) == CHOOSE n \in NodeIds \ Allocated(ug) : \A m \in NodeIds \ Allocated(ug) : n <= m

\* what an Operate call leaves and returns: the store, the Ok or Err tag, the
\* payload of an error ("<op>/<name>" and the text it carries), the handle
\* get returns and the string get_str returns
OpRes(ug, res) ==
    [ug |-> ug, res |-> res, path |-> <<>>, input |-> <<>>, aug |-> 0, str |-> <<>>]
\* format!("<op>/{}", pname): every impl writes its own operator name
OpErr(ug, res, kind, pname, input) ==
    [OpRes(ug, res) EXCEPT !.path = <<kind, "/", pname>>, !.input = input]

\* impl Operate for UG: set answers Ok(true) whatever the variant and
\* touches nothing
UGSet(ug, n, pname, m) == OpRes(ug, "Ok")

\* a Phase::set that stores the new osc and keeps the chain it had
SetParamOnly(g, n, i, m) == [g EXCEPT ![n].slots[i] = m]

\* `self.p = ug` of a set or set_str arm; Phase: `self.osc = ug;
\* self.root = Phase::make_root(self.osc.clone())`
SetParam(g, n, i, m) ==
    [g EXCEPT ![n].slots[i] = m, ![n].root = IF g[n].kind = "phase" THEN m ELSE @]

\* impl Operate for UGen / for each variant: set
OperateSet(ug, n, pname, m) ==
    LET kind == ug[n].kind
        i == SlotIndex(kind, pname)
    IN IF kind \notin OscKinds \cup EgKinds \cup ProcKinds THEN OpRes(ug, "NotUgen")
       ELSE IF i = 0 THEN OpErr(ug, "ParamNotFound", kind, pname, <<>>)
       ELSE OpRes(SetParam(ug, n, i, m), "Ok")

\* a set_str that parses the text as it was given
OperateSetStrRaw(ug, n, pname, data) ==
    LET kind == ug[n].kind
        i == SlotIndex(kind, pname)
        f == Fresh(ug)
        num == ParseF64(data)
        tab == TableParseStr(data)
    IN IF kind \notin OscKinds \cup EgKinds \cup ProcKinds THEN OpRes(ug, "NotUgen")
       ELSE IF i = 0 THEN OpErr(ug, "ParamNotFound", kind, pname, <<>>)
       ELSE IF kind = "wavetable" /\ pname = "table"
       THEN IF tab.ok
            THEN OpRes([ug EXCEPT ![f] = AugTab(tab.table), ![n].slots[i] = f], "Ok")
            ELSE OpErr(ug, "CannotParseNumber", kind, pname, data)
       ELSE IF num.ok
            THEN OpRes(SetParam([ug EXCEPT ![f] = AugVal(num.v)], n, i, f), "Ok")
            ELSE OpErr(ug, "CannotParseNumber", kind, pname, data)

\* impl Operate for UGen / for each variant: set_str
OperateSetStr(ug, n, pname, data) ==
    LET kind == ug[n].kind
        i == SlotIndex(kind, pname)
        f == Fresh(ug)
        stripped == IF kind = "rand" THEN data ELSE Retain(data, {"\n", " "})
        num == ParseF64(stripped)
        tab == TableParseStr(Retain(data, {"\n"}))
    IN IF kind \notin OscKinds \cup EgKinds \cup ProcKinds THEN OpRes(ug, "NotUgen")
       ELSE IF i = 0 THEN OpErr(ug, "ParamNotFound", kind, pname, <<>>)
       ELSE IF kind = "wavetable" /\ pname = "table"
       THEN IF tab.ok
            THEN OpRes([ug EXCEPT ![f] = AugTab(tab.table), ![n].slots[i] = f], "Ok")
            ELSE OpErr(ug, "CannotParseNumber", kind, pname, Retain(data, {"\n"}))
       ELSE IF num.ok
            THEN OpRes(SetParam([ug EXCEPT ![f] = AugVal(num.v)], n, i, f), "Ok")
            ELSE OpErr(ug, "CannotParseNumber", kind, pname, stripped)

\* impl Operate for UGen / for each variant: clear
OperateClear(ug, n, pname) ==
    LET kind == ug[n].kind
        i == SlotIndex(kind, pname)
        f == Fresh(ug)
    IN IF kind \notin (OscKinds \cup ProcKinds) \ {"rand", "phase"} \/ i = 0 THEN ug
       ELSE IF kind = "wavetable" /\ pname = "table"
       THEN [ug EXCEPT ![f] = AugTab(<<0, 0>>), ![n].slots[i] = f]
       ELSE [ug EXCEPT ![f] = AugVal(0), ![n].slots[i] = f]

\* ------------------------------------------------------------------ dump
\* impl Walk for each variant: the parameters handed to the visitor, in
\* declaration order; Rand and the leaves hand over none
WalkSlots(g, n) ==
    IF g[n].kind \in (OscKinds \cup ProcKinds) \ {"rand"} THEN g[n].slots ELSE <<>>

\* collect_shared_ugs: walk the graph with a visitor that lets the walker
\* descend into a node on its first visit only; a node visited again is
\* shared.  The list is in the order in which the nodes were found shared.
RECURSIVE WalkFrom(_, _, _, _)
WalkFrom(g, n, i, st) ==
    IF i > Len(WalkSlots(g, n)) THEN st
    ELSE LET m == WalkSlots(g, n)[i]
             st1 == IF m \in st.visited
                    THEN IF \E j \in 1..Len(st.shared) : st.shared[j] = m THEN st
                         ELSE [st EXCEPT !.shared = Append(@, m)]
                    ELSE WalkFrom(g, m, 1, [st EXCEPT !.visited = @ \cup {m}])
         IN WalkFrom(g, n, i + 1, st1)

collect_shared_ugs(g, root) == WalkFrom(g, root, 1, [visited |-> {}, shared |-> <<>>]).shared

\* Ordering::then
OrderingThen(x, y) == IF x = "Equal" THEN y ELSE x

\* fn is_include: the value of every `order.then(...)` is dropped
RECURSIVE is_include(_, _, _)
is_include(g, a, b) ==
    IF a = b THEN "Equal"
    ELSE IF g[b].kind \in LeafKinds THEN "Less"
    ELSE LET order == "Less"
             dropped == [i \in 1..Len(g[b].slots) |->
                            OrderingThen(order, is_include(g, a, g[b].slots[i]))]
         IN order

\* slice::sort_by on a short slice: insertion sort, each element moved left
\* past every element it compares Less than
RECURSIVE InsertTail(_, _, _)
InsertTail(g, sorted, x) ==
    IF sorted # <<>> /\ is_include(g, x, sorted[Len(sorted)]) = "Less"
    THEN Append(InsertTail(g, SubSeq(sorted, 1, Len(sorted) - 1), x), sorted[Len(sorted)])
    ELSE Append(sorted, x)

RECURSIVE SortBy(_, _)
SortBy(g, v) ==
    IF v = <<>> THEN <<>>
    ELSE InsertTail(g, SortBy(g, SubSeq(v, 1, Len(v) - 1)), v[Len(v)])

\* the text of a dump, token by token (one space or newline between tokens).
\* k: the kind of token, s: its characters, n: the index of a shared-<n>
\* token, of: the node whose form the token opens (0: none)
Tok(k, s, n, of) == [k |-> k, s |-> s, n |-> n, of |-> of]
LP(of) == Tok("(", <<>>, 0, of)
RP == Tok(")", <<>>, 0, 0)
Sym(name) == Tok("sym", <<name>>, 0, 0)
Num(chars, of) == Tok("num", chars, 0, of)
\* format!("shared-{}", n)
SharedTok(n) == Tok("shared", <<>>, n, 0)

\* f64::to_string: the shortest decimal that reads back as the same value
RECURSIVE NatToString(_)
NatToString(n) ==
    IF n < 10 THEN <<Digits[n + 1]>> ELSE Append(NatToString(n \div 10), Digits[(n % 10) + 1])

RECURSIVE FracToString(_, _)
FracToString(fp, unit) ==
    IF fp = 0 \/ unit = 0 THEN <<>>
    ELSE <<Digits[(fp \div unit) + 1]>> \o FracToString(fp % unit, unit \div 10)

F64ToString(v) ==
    LET a == IF v < 0 THEN -v ELSE v
        frac == FracToString(a % Scale, Scale \div 10)
    IN (IF v < 0 THEN <<"-">> ELSE <<>>) \o NatToString(a \div Scale)
       \o (IF frac = <<>> THEN <<>> ELSE <<".">> \o frac)

\* shared.iter().position(|e| *e == aug): the 0-based index, or -1 for None
Position(shared, m) ==
    LET hits == {i \in 1..Len(shared) : shared[i] = m}
    IN IF hits = {} THEN -1 ELSE (CHOOSE i \in hits : \A j \in hits : i <= j) - 1

RECURSIVE Flatten(_)
Flatten(ss) == IF ss = <<>> THEN <<>> ELSE Head(ss) \o Flatten(Tail(ss))

RECURSIVE DumpAug(_, _, _)

\* a slot that is always expanded in place, whatever the shared list holds
DumpSlotInline(g, m, shared) == DumpAug(g, m, shared)

\* the Slot value each variant's dump builds, printed by dump_value:
\* Value::Shared(n, _) => "shared-n", Value::Ug(ug) => the dump of ug
DumpSlot(g, m, shared) ==
    IF Position(shared, m) >= 0
    THEN <<SharedTok(Position(shared, m))>>
    ELSE DumpAug(g, m, shared)

\* dump_unit(&aug.dump(shared), shared): the form of node n itself
DumpAug(g, n, shared) ==
    CASE g[n].kind = "val" -> <<Num(F64ToString(g[n].val), n)>>
      [] g[n].kind = "tab" ->
            <<LP(n), Sym("table")>>
            \o [i \in 1..Len(g[n].table) |-> Num(F64ToString(g[n].table[i]), 0)]
            \o <<RP>>
      [] g[n].kind = "pat" -> <<LP(n), Sym("pat"), RP>>
      [] OTHER ->
            <<LP(n), Sym(g[n].kind)>>
            \o Flatten([i \in 1..Len(g[n].slots) |-> DumpSlot(g, g[n].slots[i], shared)])
            \o <<RP>>

\* the environment printed in the header of a dump
Env == [bpm |-> 120 * Scale, beat |-> 4 * Scale, note |-> 4 * Scale]

\* fn dump, after the list is sorted: the header, one (def shared-<idx> ...)
\* per shared unit, the root
DumpText(g, root, shared) ==
    <<LP(0), Sym("bpm"), Num(F64ToString(Env.bpm), 0), RP,
      LP(0), Sym("measure"), Num(F64ToString(Env.beat), 0), Num(F64ToString(Env.note), 0), RP>>
    \o Flatten([idx \in 1..Len(shared) |->
                  <<LP(0), Sym("def"), SharedTok(idx - 1)>>
                  \o DumpAug(g, shared[idx], shared) \o <<RP>>])
    \o DumpAug(g, root, shared)

\* fn dump
dump(g, root) ==
    LET shared == SortBy(g, collect_shared_ugs(g, root))
    IN [shared |-> shared, text |-> DumpText(g, root, shared)]

\* the node locks of a traversal, in the order they are taken and released
Lock(n) == [op |-> "lock", n |-> n]
Unlock(n) == [op |-> "unlock", n |-> n]

\* the node locks dump takes.  collect_shared_ugs walks the graph (impl Walk
\* for Aug) into every node on its first visit
RECURSIVE CollectLocksFrom(_, _, _, _)
CollectLocksFrom(g, n, i, st) ==
    IF i > Len(WalkSlots(g, n)) THEN st
    ELSE LET m == WalkSlots(g, n)[i]
             st1 == IF m \in st.visited THEN st
                    ELSE [CollectLocksFrom(g, m, 1, [visited |-> st.visited \cup {m},
                                                     ev |-> Append(st.ev, Lock(m))])
                            EXCEPT !.ev = Append(@, Unlock(m))]
         IN CollectLocksFrom(g, n, i + 1, st1)

CollectLocks(g, root) ==
    Append(CollectLocksFrom(g, root, 1, [visited |-> {}, ev |-> <<Lock(root)>>]).ev,
           Unlock(root))

\* is_include: `b.dump(&vec![])` locks b inside Aug::dump and has released it
\* when the UgNode is returned
RECURSIVE IncludeLocks(_, _, _)
IncludeLocks(g, a, b) ==
    IF a = b THEN <<>>
    ELSE <<Lock(b), Unlock(b)>>
         \o (IF g[b].kind \in LeafKinds THEN <<>>
             ELSE Flatten([i \in 1..Len(g[b].slots) |-> IncludeLocks(g, a, g[b].slots[i])]))

\* the comparisons of sort_by
RECURSIVE InsertLocks(_, _, _)
InsertLocks(g, sorted, x) ==
    IF sorted = <<>> THEN <<>>
    ELSE IncludeLocks(g, x, sorted[Len(sorted)])
         \o (IF is_include(g, x, sorted[Len(sorted)]) = "Less"
             THEN InsertLocks(g, SubSeq(sorted, 1, Len(sorted) - 1), x)
             ELSE <<>>)

RECURSIVE SortLocks(_, _)
SortLocks(g, v) ==
    IF v = <<>> THEN <<>>
    ELSE SortLocks(g, SubSeq(v, 1, Len(v) - 1))
         \o InsertLocks(g, SortBy(g, SubSeq(v, 1, Len(v) - 1)), v[Len(v)])

\* dump_ug over the slots of n: Value::Shared prints a name and locks nothing,
\* Value::Ug(aug) goes through aug.dump(shared), which locks aug (impl Dump
\* for Aug) and has released it before the slots of aug are printed
RECURSIVE SlotLocks(_, _, _)
SlotLocks(g, n, shared) ==
    IF g[n].kind \in LeafKinds THEN <<>>
    ELSE Flatten([i \in 1..Len(g[n].slots) |->
            LET m == g[n].slots[i]
            IN IF Position(shared, m) >= 0 THEN <<>>
               ELSE <<Lock(m), Unlock(m)>>
                    \o SlotLocks(g, m, shared)])

\* fn dump: the walk, the sort, then
\* `dump_unit(&su.0.lock().unwrap().dump(&shared_units), &shared_units)` per
\* shared unit, whose guard lives to the end of the `let`, then
\* `dump_unit(&ug.dump(&shared_units), &shared_units)`
DumpLocks(g, root) ==
    LET found == collect_shared_ugs(g, root)
        shared == SortBy(g, found)
    IN CollectLocks(g, root)
       \o SortLocks(g, found)
       \o Flatten([idx \in 1..Len(shared) |->
                    <<Lock(shared[idx])>>
                    \o SlotLocks(g, shared[idx], shared)
                    \o <<Unlock(shared[idx])>>])
       \o <<Lock(root), Unlock(root)>>
       \o SlotLocks(g, root, shared)

\* ---------------------------------------------------------------- parse
\* The tapirlisp reader and evaluator: a number makes a new Val, a shared-<n>
\* symbol is looked up among the definitions read so far, (table ...) makes
\* a Tab, (<op> <slot>...) makes a new node of its evaluated slots, and
\* (def shared-<n> <body>) binds the node its body evaluates to.
\* st: [ug: the nodes made so far, env: the bindings, ok]
OpNames == OscKinds \cup ProcKinds

MakeNode(op, slots) ==
    CASE op = "rand" -> RandNew(slots[1])
      [] op = "phase" -> PhaseNew(slots[1])
      [] op = "wavetable" -> WaveTableNew(slots[1], slots[2])
      [] op = "oneshot" -> OneshotNew(slots[1], slots[2])
      [] op = "lpf" -> LPFilterNew(slots[1], slots[2], slots[3])
      [] op = "delay" -> DelayNew(slots[1], slots[2], slots[3], slots[4], SampleRate)
      [] OTHER -> OscNew(op, slots)

ParseFail(st, i) == [st |-> [st EXCEPT !.ok = FALSE], node |-> 0, next |-> i]
Made(st, rec, next) ==
    [st |-> [st EXCEPT !.ug = Append(@, rec)], node |-> Len(st.ug) + 1, next |-> next]

\* the numbers of a (table ...) form, from token i up to the closing paren
RECURSIVE ReadNumbers(_, _, _)
ReadNumbers(toks, i, acc) ==
    IF i > Len(toks) THEN [ok |-> FALSE, vals |-> acc, next |-> i]
    ELSE IF toks[i].k = ")" THEN [ok |-> TRUE, vals |-> acc, next |-> i + 1]
    ELSE IF toks[i].k = "num" /\ ParseF64(toks[i].s).ok
    THEN ReadNumbers(toks, i + 1, Append(acc, ParseF64(toks[i].s).v))
    ELSE [ok |-> FALSE, vals |-> acc, next |-> i]

RECURSIVE EvalExpr(_, _, _), EvalArgs(_, _, _, _)
EvalExpr(toks, i, st) ==
    IF ~st.ok \/ i > Len(toks) THEN ParseFail(st, i)
    ELSE LET t == toks[i]
         IN CASE t.k = "num" ->
                    IF ParseF64(t.s).ok THEN Made(st, AugVal(ParseF64(t.s).v), i + 1)
                    ELSE ParseFail(st, i)
              [] t.k = "shared" ->
                    IF t.n \in DOMAIN st.env
                    THEN [st |-> st, node |-> st.env[t.n], next |-> i + 1]
                    ELSE ParseFail(st, i)
              [] t.k = "(" /\ i < Len(toks) /\ toks[i + 1].k = "sym" ->
                    LET op == toks[i + 1].s[1]
                    IN IF op = "table"
                       THEN LET r == ReadNumbers(toks, i + 2, <<>>)
                            IN IF r.ok THEN Made(st, AugTab(r.vals), r.next)
                               ELSE ParseFail(st, i)
                       ELSE IF op \in OpNames
                       THEN LET r == EvalArgs(toks, i + 2, st, <<>>)
                            IN IF r.st.ok /\ Len(r.nodes) = Len(SlotNames(op))
                               THEN Made(r.st, MakeNode(op, r.nodes), r.next)
                               ELSE ParseFail(r.st, i)
                       ELSE ParseFail(st, i)
              [] OTHER -> ParseFail(st, i)

EvalArgs(toks, i, st, acc) ==
    IF ~st.ok \/ i > Len(toks) THEN [st |-> [st EXCEPT !.ok = FALSE], nodes |-> acc, next |-> i]
    ELSE IF toks[i].k = ")" THEN [st |-> st, nodes |-> acc, next |-> i + 1]
    ELSE LET r == EvalExpr(toks, i, st)
         IN EvalArgs(toks, r.next, r.st, Append(acc, r.node))

IsForm(toks, i, name) ==
    i + 1 <= Len(toks) /\ toks[i].k = "(" /\ toks[i + 1] = Sym(name)

\* the top-level forms in order; the last graph form read is the root
RECURSIVE EvalForms(_, _, _, _)
EvalForms(toks, i, st, root) ==
    IF ~st.ok \/ i > Len(toks) THEN [ok |-> st.ok /\ root # 0, ug |-> st.ug, root |-> root]
    ELSE IF IsForm(toks, i, "bpm") THEN EvalForms(toks, i + 4, st, root)
    ELSE IF IsForm(toks, i, "measure") THEN EvalForms(toks, i + 5, st, root)
    ELSE IF IsForm(toks, i, "def")
    THEN LET r == EvalExpr(toks, i + 3, st)
             closed == r.st.ok /\ r.next <= Len(toks) /\ toks[r.next].k = ")"
                       /\ toks[i + 2].k = "shared"
         IN IF closed
            THEN EvalForms(toks, r.next + 1,
                           [r.st EXCEPT !.env = [x \in DOMAIN @ \cup {toks[i + 2].n} |->
                                                    IF x = toks[i + 2].n THEN r.node ELSE @[x]]],
                           root)
            ELSE [ok |-> FALSE, ug |-> r.st.ug, root |-> root]
    ELSE LET r == EvalExpr(toks, i, st)
         IN EvalForms(toks, r.next, r.st, r.node)

ParseText(toks) == EvalForms(toks, 1, [ug |-> <<>>, env |-> <<>>, ok |-> TRUE], 0)

\* ---------------------------------------------------------------- state
VARIABLES
    ug,         \* the node store: identity -> UGen
    tick,       \* transport.tick
    err,        \* "ok", or how a proc call on the audio path failed
    hist,       \* hist[n][t]: runs of n's variant body with transport.tick = t
    ncalls,     \* ncalls[n][t]: proc calls n received with transport.tick = t
    rootCalls,  \* root.proc calls made with the current tick (0 at a sample boundary)
    pre,        \* the store as it was before the latest root.proc call
    out,        \* the signal the latest root.proc call returned
    rets,       \* rets[n]: the signals n's proc returned during that call
    last,       \* the latest step
    nops,       \* Operate calls made so far
    opres,      \* the result of the latest Operate call
    incs,       \* Transport::inc calls made so far
    \* the transport's rate and the samples taken from the root
    sample_rate, \* transport.sample_rate
    outs,       \* the signals root.proc returned, one per sample taken
    \* the latest Operate call
    opargs,     \* its receiver and arguments
    opre,       \* the store as it was before it
    opret,      \* what it returned
    \* a walk of the graph (trait Walk)
    visitor,    \* the nodes for which the visitor returns true
    visits,     \* the calls of the visitor so far: parent, child, depth, answer
    \* the Aug handles a program holds (Arc<Mutex<UGen>>)
    handles,    \* handles[h]: the node handle h points to, 0 once dropped
    strong,     \* strong[n]: the strong count of node n's Arc
    hret,       \* the latest handle operation and what it returned
    \* the sound system (soundsystem.rs)
    apc,        \* where the audio thread is in the callback of SoundSystem::run
    coord,      \* the owner of the coordination mutex (self.lock)
    tlock,      \* the owner of the transport mutex
    cpc,        \* where the control thread is
    bufLen,     \* the number of slots of the buffer handed to the callback
    written,    \* the slots written so far: tick and number of the sample, channel, value
    cbProcs,    \* root.proc calls made by this callback
    cbIncs,     \* transport.inc calls made by this callback
    sample,     \* (l, r) and the tick they were computed for
    wticks,     \* the ticks of the stereo pairs written so far, over all callbacks
    mutMid,     \* a mutation took place between a sample's proc and its inc
    oddBufs,    \* per callback so far: whether its buffer has an odd number of slots
    \* the serializer (tapirlisp/dump.rs)
    dpc,        \* "idle", "dumped" or "parsed"
    shared_units, \* the sorted list of shared nodes dump worked with
    text,       \* the text dump returned, as tokens
    ug2,        \* the store built by reading the text back
    root2,      \* the node the last form of the text evaluated to
    parseOk,    \* whether reading the text back succeeded
    locks       \* the node locks taken and released by the latest walk or dump

gvars == <<ug, tick, err, hist, ncalls, rootCalls, pre, out, rets, last, nops, opres, incs>>
xvars == <<sample_rate, outs, opargs, opre, opret>>
hvars == <<visitor, visits, handles, strong, hret>>
svars == <<apc, coord, tlock, cpc, bufLen, written, cbProcs, cbIncs, sample, wticks, mutMid, oddBufs>>
dvars == <<dpc, shared_units, text, ug2, root2, parseOk, locks>>
vars == <<gvars, xvars, hvars, svars, dvars>>

Ticks == 0..MaxTick

\* graphs as a builder (the tapirlisp evaluator) constructs them; node 1 is
\* the root handed to the sound system
Graph(nodes) == [n \in NodeIds |-> IF n <= Len(nodes) THEN nodes[n] ELSE FreeNode]

Half == Scale \div 2
Quarter == Scale \div 4

Graphs ==
    { \* (saw v v), one Val shared by both slots
      Graph(<<OscNew("saw", <<2, 2>>), AugVal(Scale)>>),
      \* (delay 0.25 0.5 1 (saw 0.5 1))
      Graph(<<DelayNew(2, 3, 4, 5, SampleRate), AugVal(Quarter), AugVal(Half), AugVal(Scale),
              OscNew("saw", <<3, 4>>)>>),
      \* (oneshot (saw 8 8) eg) with the envelope in Attack
      Graph(<<OneshotNew(2, 3), OscNew("saw", <<4, 4>>), EgNew("Attack"), AugVal(8 * Scale)>>),
      \* (oneshot (saw 1 1) 1): the envelope slot holds no envelope
      Graph(<<OneshotNew(2, 3), OscNew("saw", <<3, 3>>), AugVal(Scale)>>),
      \* (wavetable (table 0 0.5 1) (phase (saw 1 1)))
      Graph(<<WaveTableNew(2, 3), AugTab(<<0, Half, Scale>>), PhaseNew(4),
              OscNew("saw", <<5, 5>>), AugVal(Scale)>>),
      \* (pulse r 1 r) with r = (rand 1) shared
      Graph(<<OscNew("pulse", <<2, 3, 2>>), RandNew(3), AugVal(Scale)>>),
      \* (tri s (pulse s 1 0.5)) with s = (saw 1 1) shared, and 1 shared
      Graph(<<OscNew("tri", <<2, 3>>), OscNew("saw", <<4, 4>>),
              OscNew("pulse", <<2, 4, 5>>), AugVal(Scale), AugVal(Half)>>) }

PNames == {"init_ph", "freq", "duty", "osc", "table", "ph", "eg",
           "time", "feedback", "mix", "src", "q", "vol"}

StrInputs == {<<"1">>, <<"0", ".", "5">>, <<"0", " ", "1">>, <<"x">>}

ZeroHist == [n \in NodeIds |-> [t \in Ticks |-> 0]]

GInit ==
    /\ tick = 0
    /\ err = "ok"
    /\ hist = ZeroHist
    /\ ncalls = ZeroHist
    /\ rootCalls = 0
    /\ pre = ug
    /\ out = <<0, 0>>
    /\ rets = [n \in NodeIds |-> {}]
    /\ last = "init"
    /\ nops = 0
    /\ opres = "none"
    /\ incs = 0

\* no sample has been taken and no Operate call made
XInit ==
    /\ outs = <<>>
    /\ opargs = [op |-> "none", tick |-> 0]
    /\ opre = ug
    /\ opret = OpRes(<<>>, "none")

\* no walk has been made and no handle operation recorded
HInit ==
    /\ visitor = {}
    /\ visits = <<>>
    /\ handles = <<>>
    /\ strong = [n \in NodeIds |-> 0]
    /\ hret = [op |-> "none"]

\* SoundSystem::new: no callback is running, no lock is held
SInit ==
    /\ apc = "done"
    /\ coord = "none"
    /\ tlock = "none"
    /\ cpc = "idle"
    /\ bufLen = 0
    /\ written = <<>>
    /\ cbProcs = 0
    /\ cbIncs = 0
    /\ sample = [l |-> 0, r |-> 0, t |-> 0]
    /\ wticks = <<>>
    /\ mutMid = FALSE
    /\ oddBufs = <<>>

\* no dump has been taken
DInit ==
    /\ dpc = "idle"
    /\ shared_units = <<>>
    /\ text = <<>>
    /\ ug2 = <<>>
    /\ root2 = 0
    /\ parseOk = FALSE
    /\ locks = <<>>

\* what one root.proc(&transport) call does to the store and the ghosts
RootProc ==
    LET r == AugProc(Ctx(ug, sample_rate), Root, tick)
    IN /\ ug' = r.c.ug
       /\ err' = r.c.err
       /\ hist' = [n \in NodeIds |-> [hist[n] EXCEPT ![tick] = @ + r.c.runs[n]]]
       /\ ncalls' = [n \in NodeIds |-> [ncalls[n] EXCEPT ![tick] = @ + r.c.calls[n]]]
       /\ pre' = ug
       /\ out' = r.sig
       /\ rets' = r.c.rets
       /\ rootCalls' = rootCalls + 1
       /\ last' = "proc"

\* a caller evaluates the graph: root.proc(&transport)
Proc ==
    /\ err = "ok"
    /\ rootCalls = 0
    /\ RootProc
    /\ UNCHANGED <<xvars, hvars, dvars, tick, incs, nops, opres, svars>>

\* Transport::inc
TransportInc ==
    /\ tick' = tick + 1
    /\ incs' = incs + 1
    /\ rootCalls' = 0

Inc ==
    /\ err = "ok"
    /\ tick < MaxTick
    /\ rootCalls = 1
    /\ TransportInc
    /\ last' = "inc"
    /\ UNCHANGED <<xvars, hvars, dvars, ug, err, hist, ncalls, pre, out, rets, nops, opres, svars>>

\* n.set(pname, m)
SetOp ==
    /\ \E n \in Allocated(ug), m \in Allocated(ug), pname \in PNames :
         LET r == OperateSet(ug, n, pname, m)
         IN /\ Acyclic(r.ug)
            /\ ug' = r.ug
            /\ opres' = r.res
    /\ nops' = nops + 1
    /\ last' = "set"

\* n.set_str(pname, data)
SetStrOp ==
    /\ HasFree(ug)
    /\ \E n \in Allocated(ug), pname \in PNames, data \in StrInputs :
         LET r == OperateSetStr(ug, n, pname, data)
         IN /\ ug' = r.ug
            /\ opres' = r.res
    /\ nops' = nops + 1
    /\ last' = "set_str"

\* n.clear(pname)
ClearOp ==
    /\ HasFree(ug)
    /\ \E n \in Allocated(ug), pname \in PNames :
         ug' = OperateClear(ug, n, pname)
    /\ nops' = nops + 1
    /\ opres' = "none"
    /\ last' = "clear"

\* the owner of the graph replaces a parameter between two samples
Set ==
    /\ err = "ok" /\ nops < MaxOps /\ rootCalls = 0
    /\ SetOp
    /\ UNCHANGED <<xvars, hvars, dvars, tick, incs, err, hist, ncalls, rootCalls, pre, out, rets, svars>>

SetStr ==
    /\ err = "ok" /\ nops < MaxOps /\ rootCalls = 0
    /\ SetStrOp
    /\ UNCHANGED <<xvars, hvars, dvars, tick, incs, err, hist, ncalls, rootCalls, pre, out, rets, svars>>

Clear ==
    /\ err = "ok" /\ nops < MaxOps /\ rootCalls = 0
    /\ ClearOp
    /\ UNCHANGED <<xvars, hvars, dvars, tick, incs, err, hist, ncalls, rootCalls, pre, out, rets, svars>>

Init == ug \in Graphs /\ sample_rate = SampleRate /\ GInit /\ XInit /\ HInit /\ SInit /\ DInit

Next == Proc \/ Inc \/ Set \/ SetStr \/ Clear

Spec == Init /\ [][Next]_vars

\* ---------------------------------------------------------- sound system
\* the graphs played in the sound-system model
SoundGraphs ==
    { \* (saw 1 1)
      Graph(<<OscNew("saw", <<2, 2>>), AugVal(Scale)>>),
      \* (wavetable (table 0 0.5 1) 0.5)
      Graph(<<WaveTableNew(2, 3), AugTab(<<0, Half, Scale>>), AugVal(Half)>>) }

SoundInit ==
    ug \in SoundGraphs /\ sample_rate = SampleRate /\ GInit /\ XInit /\ HInit /\ SInit /\ DInit

\* ad.run(|buffer| ...): the backend calls the callback with a buffer of k
\* stereo pairs; `let mut iter = buffer.iter_mut()`
CallbackStart ==
    /\ apc = "done"
    /\ err = "ok"
    /\ tick <= MaxTick
    /\ \E k \in 1..MaxBuf : bufLen' = 2 * k
    /\ oddBufs' = Append(oddBufs, bufLen' % 2 = 1)
    /\ written' = <<>>
    /\ cbProcs' = 0
    /\ cbIncs' = 0
    /\ apc' = "loop"
    /\ UNCHANGED <<xvars, hvars, dvars, gvars, coord, tlock, cpc, sample, wticks, mutMid>>

\* the device hands the callback a buffer with an odd number of slots
CallbackStartOdd ==
    /\ apc = "done"
    /\ err = "ok"
    /\ tick <= MaxTick
    /\ \E k \in 1..MaxBuf : bufLen' = 2 * k - 1
    /\ oddBufs' = Append(oddBufs, bufLen' % 2 = 1)
    /\ written' = <<>>
    /\ cbProcs' = 0
    /\ cbIncs' = 0
    /\ apc' = "loop"
    /\ UNCHANGED <<xvars, hvars, dvars, gvars, coord, tlock, cpc, sample, wticks, mutMid>>

\* the same step of a callback that does not take the coordination mutex
AudioNoLock ==
    /\ apc = "loop"
    /\ tick <= MaxTick
    /\ sample' = [l |-> 0, r |-> 0, t |-> tick]
    /\ apc' = "transport"
    /\ UNCHANGED <<xvars, hvars, dvars, gvars, coord, tlock, cpc, bufLen, written, cbProcs, cbIncs, wticks, mutMid, oddBufs>>

\* `let (mut l, mut r) = (0.0, 0.0); if let Ok(_) = self.lock.lock()`:
\* blocks until the coordination mutex is free, then holds it to the end of
\* the `if let` statement
AudioLock ==
    /\ apc = "loop"
    /\ tick <= MaxTick
    /\ coord = "none"
    /\ coord' = "audio"
    /\ sample' = [l |-> 0, r |-> 0, t |-> tick]
    /\ apc' = "transport"
    /\ UNCHANGED <<xvars, hvars, dvars, gvars, tlock, cpc, bufLen, written, cbProcs, cbIncs, wticks, mutMid, oddBufs>>

\* `let mut transport = self.transport.lock().unwrap()`
TransportLock ==
    /\ apc = "transport"
    /\ tlock = "none"
    /\ tlock' = "audio"
    /\ apc' = "proc"
    /\ UNCHANGED <<xvars, hvars, dvars, gvars, coord, cpc, bufLen, written, cbProcs, cbIncs, sample, wticks, mutMid, oddBufs>>

\* `let s = self.root_ug.0.lock().unwrap().proc(&transport); l = s.0; r = s.1`
AudioProc ==
    /\ apc = "proc"
    /\ RootProc
    /\ sample' = [l |-> out'[1], r |-> out'[2], t |-> tick]
    /\ cbProcs' = cbProcs + 1
    /\ apc' = IF err' = "ok" THEN "inc" ELSE "dead"
    /\ UNCHANGED <<xvars, hvars, dvars, tick, incs, nops, opres, coord, tlock, cpc, bufLen, written, cbIncs,
                   wticks, mutMid, oddBufs>>

\* the same step of a callback that leaves the transport where it is
AudioNoInc ==
    /\ apc = "inc"
    /\ cbIncs' = cbIncs + 1
    /\ apc' = "unlockT"
    /\ UNCHANGED <<xvars, hvars, dvars, gvars,
                   coord, tlock, cpc, bufLen, written, cbProcs, sample, wticks, mutMid, oddBufs>>

\* `transport.inc()`
AudioInc ==
    /\ apc = "inc"
    /\ TransportInc
    /\ cbIncs' = cbIncs + 1
    /\ apc' = "unlockT"
    /\ UNCHANGED <<xvars, hvars, dvars, ug, err, hist, ncalls, pre, out, rets, last, nops, opres,
                   coord, tlock, cpc, bufLen, written, cbProcs, sample, wticks, mutMid, oddBufs>>

\* the end of the `if let` block drops the transport guard ...
TransportUnlock ==
    /\ apc = "unlockT"
    /\ tlock' = "none"
    /\ apc' = "unlockC"
    /\ UNCHANGED <<xvars, hvars, dvars, gvars, coord, cpc, bufLen, written, cbProcs, cbIncs, sample, wticks, mutMid, oddBufs>>

\* ... and then the guard of the coordination mutex
AudioUnlock ==
    /\ apc = "unlockC"
    /\ coord' = IF coord = "audio" THEN "none" ELSE coord
    /\ apc' = "writeL"
    /\ UNCHANGED <<xvars, hvars, dvars, gvars, tlock, cpc, bufLen, written, cbProcs, cbIncs, sample, wticks, mutMid, oddBufs>>

\* the same step of a callback that fills a left slot from the right channel
WriteLFromRight ==
    /\ apc = "writeL"
    /\ IF Len(written) < bufLen
       THEN /\ written' = Append(written, [t |-> sample.t, v |-> sample.r, ch |-> "r", i |-> cbProcs])
            /\ apc' = "writeR"
       ELSE /\ written' = written
            /\ apc' = "done"
    /\ UNCHANGED <<xvars, hvars, dvars, gvars, coord, tlock, cpc, bufLen, cbProcs, cbIncs, sample, wticks, mutMid, oddBufs>>

\* `match iter.next() { Some(lref) => *lref = l as f32, None => break }`
WriteL ==
    /\ apc = "writeL"
    /\ IF Len(written) < bufLen
       THEN /\ written' = Append(written, [t |-> sample.t, v |-> sample.l, ch |-> "l", i |-> cbProcs])
            /\ apc' = "writeR"
       ELSE /\ written' = written
            /\ apc' = "done"
    /\ UNCHANGED <<xvars, hvars, dvars, gvars, coord, tlock, cpc, bufLen, cbProcs, cbIncs, sample, wticks, mutMid, oddBufs>>

\* `match iter.next() { Some(rref) => *rref = r as f32, None => break }`
WriteR ==
    /\ apc = "writeR"
    /\ IF Len(written) < bufLen
       THEN /\ written' = Append(written, [t |-> sample.t, v |-> sample.r, ch |-> "r", i |-> cbProcs])
            /\ wticks' = Append(wticks, sample.t)
            /\ apc' = "loop"
       ELSE /\ written' = written
            /\ wticks' = wticks
            /\ apc' = "done"
    /\ UNCHANGED <<xvars, hvars, dvars, gvars, coord, tlock, cpc, bufLen, cbProcs, cbIncs, sample, mutMid, oddBufs>>

\* the control thread (an editor) takes the coordination mutex ...
CtlLock ==
    /\ cpc = "idle"
    /\ nops < MaxOps
    /\ coord = "none"
    /\ coord' = "ctl"
    /\ cpc' = "locked"
    /\ UNCHANGED <<xvars, hvars, dvars, gvars, apc, tlock, bufLen, written, cbProcs, cbIncs, sample, wticks, mutMid, oddBufs>>

\* ... replaces a parameter ...
CtlMutate ==
    /\ cpc = "locked"
    /\ SetOp \/ SetStrOp \/ ClearOp
    /\ mutMid' = (mutMid \/ rootCalls # 0)
    /\ cpc' = "mutated"
    /\ UNCHANGED <<xvars, hvars, dvars, tick, incs, err, hist, ncalls, rootCalls, pre, out, rets,
                   apc, coord, tlock, bufLen, written, cbProcs, cbIncs, sample, wticks, oddBufs>>

\* ... and releases the mutex
CtlUnlock ==
    /\ cpc = "mutated"
    /\ coord' = "none"
    /\ cpc' = "idle"
    /\ UNCHANGED <<xvars, hvars, dvars, gvars, apc, tlock, bufLen, written, cbProcs, cbIncs, sample, wticks, mutMid, oddBufs>>

NextSound ==
    \/ CallbackStart \/ AudioLock \/ TransportLock \/ AudioProc \/ AudioInc
    \/ TransportUnlock \/ AudioUnlock \/ WriteL \/ WriteR
    \/ CtlLock \/ CtlMutate \/ CtlUnlock

SpecSound == SoundInit /\ [][NextSound]_vars

\* the callback has a step to take: lock() returns once the mutex is free,
\* every other statement of the loop runs as soon as the thread is scheduled
AudioReady ==
    \/ apc = "loop" /\ tick <= MaxTick /\ coord = "none"
    \/ apc = "loop" /\ coord = "poisoned"
    \/ apc = "transport" /\ tlock = "none"
    \/ apc \in {"proc", "inc", "unlockT", "unlockC", "writeL", "writeR"}

\* the audio thread moves on to its next statement
AudioTurn ==
    /\ AudioReady
    /\ apc' \in {"loop", "transport", "proc", "inc", "unlockT", "unlockC", "writeL", "writeR",
                 "done", "dead"}

\* a control thread that holds the coordination mutex goes on to release it
CtlTurn == cpc \in {"locked", "mutated"} /\ cpc' \in {"mutated", "idle"}

\* both threads keep running; when the backend calls the callback is left open
SpecSoundFair == SpecSound /\ WF_apc(AudioTurn) /\ WF_cpc(CtlTurn)

\* the audio thread alone, on buffers of every length
NextCallback ==
    \/ CallbackStart \/ CallbackStartOdd \/ AudioLock \/ TransportLock \/ AudioProc
    \/ AudioInc \/ TransportUnlock \/ AudioUnlock \/ WriteL \/ WriteR

SpecCallback == SoundInit /\ [][NextCallback]_vars

\* ------------------------------------------------------- poisoned mutex
\* the control thread panics while it holds the coordination mutex: the
\* guard is dropped during the unwinding, which poisons the mutex
CtlPanic ==
    /\ cpc = "locked"
    /\ coord' = "poisoned"
    /\ cpc' = "dead"
    /\ UNCHANGED <<xvars, hvars, dvars, gvars, apc, tlock, bufLen, written, cbProcs, cbIncs, sample, wticks, mutMid, oddBufs>>

\* a callback that unwraps the result of lock() and panics on a poisoned mutex
AudioLockUnwrap ==
    /\ apc = "loop"
    /\ coord = "poisoned"
    /\ apc' = "dead"
    /\ UNCHANGED <<xvars, hvars, dvars, gvars, coord, tlock, cpc, bufLen, written, cbProcs, cbIncs, sample, wticks, mutMid, oddBufs>>

\* `let (mut l, mut r) = (0.0, 0.0); if let Ok(_) = self.lock.lock()` on a
\* poisoned mutex: lock() returns Err at once, the body is skipped and
\* l and r stay 0.0; t = -1 records that no tick was evaluated for the pair
AudioLockPoisoned ==
    /\ apc = "loop"
    /\ coord = "poisoned"
    /\ sample' = [l |-> 0, r |-> 0, t |-> -1]
    /\ apc' = "writeL"
    /\ UNCHANGED <<xvars, hvars, dvars, gvars, coord, tlock, cpc, bufLen, written, cbProcs, cbIncs, wticks, mutMid, oddBufs>>

\* the backend calls the callback, at most MaxTick + 1 times
PoisonStart ==
    /\ Len(oddBufs) <= MaxTick
    /\ CallbackStart \/ CallbackStartOdd

NextPoison ==
    \/ PoisonStart \/ AudioLock \/ TransportLock \/ AudioProc \/ AudioInc
    \/ TransportUnlock \/ AudioUnlock \/ WriteL \/ WriteR
    \/ CtlLock \/ CtlPanic \/ AudioLockPoisoned

\* the audio thread keeps running until its callback returns
SpecPoison == SoundInit /\ [][NextPoison]_vars /\ WF_apc(AudioTurn)

\* -------------------------------------------------------------- sampling
\* a caller takes samples from a graph on a new transport, as the loop of
\* WaveTable::from_osc does: root.proc, keep the signal, transport.inc
SampleGraphs(sr) ==
    { \* (delay 0.25 0.5 1 src) with src = 1
      Graph(<<DelayNew(2, 3, 4, 5, sr), AugVal(Quarter), AugVal(Half), AugVal(Scale),
              AugVal(Scale)>>) }
    \cup (IF sr = 0 THEN {}
          ELSE { \* (saw 0 1)
                 Graph(<<OscNew("saw", <<2, 3>>), AugVal(0), AugVal(Scale)>>),
                 \* (pulse s 1 (tri s 1)) with s = (saw 0 1) shared
                 Graph(<<OscNew("pulse", <<2, 3, 4>>), OscNew("saw", <<5, 3>>), AugVal(Scale),
                         OscNew("tri", <<2, 3>>), AugVal(0)>>) })
    \cup { \* (rand 0), (rand 1) and (rand 2.5)
           Graph(<<RandNew(2), AugVal(f)>>) : f \in {0, Scale, 2 * Scale + Half} }
    \cup { \* the leaves: 0.5, (table 0.5 1) and a pattern
           Graph(<<AugVal(Half)>>), Graph(<<AugTab(<<Half, Scale>>)>>),
           Graph(<<UGenNew("pat", <<>>, 0, <<>>)>>) }

SamplesInit ==
    /\ sample_rate \in 0..SampleRate
    /\ ug \in SampleGraphs(sample_rate)
    /\ GInit /\ XInit /\ HInit /\ SInit /\ DInit

\* the src of the delay is still the 1 it was built with
ImpulseOn == ug[Root].kind = "delay" /\ nops = 0

\* `let v = osc.0.lock().unwrap().proc(&transport)`; `table.push(v)`
SampleProc ==
    /\ err = "ok"
    /\ rootCalls = 0
    /\ Len(outs) < MaxSamples
    /\ ~(ImpulseOn /\ tick = 2)
    /\ RootProc
    /\ outs' = Append(outs, out')
    /\ UNCHANGED <<sample_rate, opargs, opre, opret, hvars, dvars, tick, incs, nops, opres, svars>>

\* `transport.inc()`
SampleInc ==
    /\ rootCalls = 1
    /\ TransportInc
    /\ last' = "inc"
    /\ UNCHANGED <<xvars, hvars, dvars, ug, err, hist, ncalls, pre, out, rets, nops, opres, svars>>

\* the caller ends the impulse between two samples: delay.set_str("src", "0"),
\* after the sample of tick 0 or after the sample of tick 1
ImpulseOff ==
    /\ ImpulseOn
    /\ rootCalls = 0
    /\ tick \in {1, 2}
    /\ LET r == OperateSetStr(ug, Root, "src", <<"0">>)
       IN /\ ug' = r.ug
          /\ opres' = r.res
    /\ opargs' = [op |-> "set_str", n |-> Root, pname |-> "src", data |-> <<"0">>,
                  tick |-> tick]
    /\ opre' = ug
    /\ nops' = nops + 1
    /\ last' = "set_str"
    /\ UNCHANGED <<sample_rate, outs, opret, hvars, dvars, tick, incs, err, hist, ncalls, rootCalls, pre,
                   out, rets, svars>>

NextSamples == SampleProc \/ SampleInc \/ ImpulseOff

SpecSamples == SamplesInit /\ [][NextSamples]_vars

\* --------------------------------------------------------------- oneshot
\* (oneshot (saw 0 f) eg) for f = 2 and f = 3, the envelope in any state
ADSR == {"Attack", "Decay", "Sustin", "Release", "None"}

OneshotGraphs ==
    { Graph(<<OneshotNew(2, 3), OscNew("saw", <<4, 5>>), EgNew(st), AugVal(0), AugVal(f * Scale)>>) :
        st \in ADSR, f \in {2, 3} }

OneshotInit ==
    /\ ug \in OneshotGraphs
    /\ sample_rate = SampleRate
    /\ GInit /\ XInit /\ HInit /\ SInit /\ DInit

\* a sequencer calls eg.set_state(st, 0) between two samples
EgSetState ==
    /\ rootCalls = 0
    /\ nops < MaxOps
    /\ \E st \in ADSR :
        /\ ug' = [ug EXCEPT ![ug[Root].slots[2]].state = st]
        /\ opargs' = [op |-> "set_state", n |-> ug[Root].slots[2], state |-> st, tick |-> tick]
    /\ opre' = ug
    /\ nops' = nops + 1
    /\ last' = "set_state"
    /\ UNCHANGED <<sample_rate, outs, opret, hvars, dvars, tick, incs, err, hist, ncalls, rootCalls, pre,
                   out, rets, opres, svars>>

NextOneshot == SampleProc \/ SampleInc \/ EgSetState

SpecOneshot == OneshotInit /\ [][NextOneshot]_vars

\* --------------------------------------------------------------- operate
\* impl Operate for UGen / for each variant: get.  The leaves answer NotUgen;
\* Rand::get has no arm for any name
OperateGet(g, n, pname) ==
    LET kind == g[n].kind
        i == SlotIndex(kind, pname)
    IN IF kind \notin OscKinds \cup EgKinds \cup ProcKinds THEN OpRes(g, "NotUgen")
       ELSE IF kind = "rand" \/ i = 0 THEN OpErr(g, "ParamNotFound", kind, pname, <<>>)
       ELSE [OpRes(g, "Ok") EXCEPT !.aug = g[n].slots[i]]

\* impl Operate for UGen / for each variant: get_str, through get and
\* Aug::to_val
OperateGetStr(g, n, pname) ==
    LET r == OperateGet(g, n, pname)
    IN IF r.res # "Ok" THEN r
       ELSE IF g[r.aug].kind = "val"
       THEN [OpRes(g, "Ok") EXCEPT !.str = F64ToString(g[r.aug].val)]
       ELSE OpErr(g, "CannotRepresentAsString", g[n].kind, pname, <<>>)

\* the nodes a caller holds handles of: 2 is Val(0.5), 3 is (saw 0.5 0.5),
\* 4 is a table
OperatePool == <<AugVal(Half), OscNew("saw", <<2, 2>>), AugTab(<<0, Half>>)>>

\* the receivers: one node of every operator, its parameters all the Val or
\* all the saw (the table of a wavetable is the table), and the three leaves
OperateRoots ==
    { UGenNew(k, [i \in 1..Len(SlotNames(k)) |-> m], 0, <<>>) :
        k \in {"sine", "tri", "saw", "pulse", "phase", "oneshot", "lpf"}, m \in {2, 3} }
    \cup { RandNew(m) : m \in {2, 3} }
    \cup { WaveTableNew(4, m) : m \in {2, 3} }
    \cup { DelayNew(m, m, m, m, SampleRate) : m \in {2, 3} }
    \cup { AugVal(Scale), AugTab(<<Scale>>), UGenNew("pat", <<>>, 0, <<>>) }

OperateGraphs == { Graph(<<r>> \o OperatePool) : r \in OperateRoots }

OperateInputs == {<<"0", ".", "5">>, <<"0", " ", "1">>, <<"x">>, <<"x", " ">>, <<"0", " ", "x">>}

OperateInit ==
    /\ ug \in OperateGraphs
    /\ sample_rate = SampleRate
    /\ GInit /\ XInit /\ HInit /\ SInit /\ DInit

\* the bookkeeping of one Operate call on the root that returned r
OperateCall(op, pname, m, data, r) ==
    /\ ug' = r.ug
    /\ opres' = r.res
    /\ opret' = [r EXCEPT !.ug = <<>>]
    /\ opargs' = [op |-> op, n |-> Root, pname |-> pname, m |-> m, data |-> data,
                  tick |-> tick]
    /\ opre' = ug
    /\ nops' = nops + 1
    /\ last' = op
    /\ UNCHANGED <<sample_rate, outs, hvars, dvars, tick, incs, err, hist, ncalls, rootCalls, pre,
                   out, rets, svars>>

\* root.get(pname)
GetCall ==
    /\ nops < MaxOps
    /\ \E pname \in PNames :
        OperateCall("get", pname, 0, <<>>, OperateGet(ug, Root, pname))

\* root.get_str(pname)
GetStrCall ==
    /\ nops < MaxOps
    /\ \E pname \in PNames :
        OperateCall("get_str", pname, 0, <<>>, OperateGetStr(ug, Root, pname))

\* root.set(pname, m)
SetCall ==
    /\ nops < MaxOps
    /\ \E pname \in PNames, m \in Allocated(ug) \ {Root} :
        OperateCall("set", pname, m, <<>>, OperateSet(ug, Root, pname, m))

\* root.set_str(pname, data)
SetStrCall ==
    /\ nops < MaxOps /\ HasFree(ug)
    /\ \E pname \in PNames, data \in OperateInputs :
        OperateCall("set_str", pname, 0, data, OperateSetStr(ug, Root, pname, data))

\* root.clear(pname), which returns nothing
ClearCall ==
    /\ nops < MaxOps /\ HasFree(ug)
    /\ \E pname \in PNames :
        OperateCall("clear", pname, 0, <<>>, OpRes(OperateClear(ug, Root, pname), "none"))

NextOperate == GetCall \/ GetStrCall \/ SetCall \/ SetStrCall \/ ClearCall

SpecOperate == OperateInit /\ [][NextOperate]_vars

\* ------------------------------------------------------------------ walk
\* impl Walk for Aug, UGen, UG and each variant: node n hands its parameters
\* from the i-th on to the visitor f, one after the other, and walks a
\* parameter right after f answered true for it.  f answers true for the
\* nodes of `accept`; every call of f is recorded.
RECURSIVE WalkAug(_, _, _, _, _, _)
WalkAug(g, accept, n, i, depth, calls) ==
    IF i > Len(WalkSlots(g, n)) THEN calls
    ELSE LET m == WalkSlots(g, n)[i]
             call == [parent |-> n, child |-> m, depth |-> depth, ret |-> m \in accept]
             below == IF m \in accept
                      THEN WalkAug(g, accept, m, 1, depth + 1, Append(calls, call))
                      ELSE Append(calls, call)
         IN WalkAug(g, accept, n, i + 1, depth, below)

\* impl Walk for Aug: `(*self.0.lock().unwrap()).walk(f)`; the guard lives to
\* the end of the statement, so a node stays locked while its parameters
\* are handed to f and walked
RECURSIVE WalkLocksFrom(_, _, _, _, _)
WalkLocksFrom(g, accept, n, i, ev) ==
    IF i > Len(WalkSlots(g, n)) THEN ev
    ELSE LET m == WalkSlots(g, n)[i]
             below == IF m \in accept
                      THEN Append(WalkLocksFrom(g, accept, m, 1, Append(ev, Lock(m))), Unlock(m))
                      ELSE ev
         IN WalkLocksFrom(g, accept, n, i + 1, below)

\* a walk that keeps the guard of the node it starts from
WalkLocksKept(g, accept, root) == WalkLocksFrom(g, accept, root, 1, <<Lock(root)>>)

WalkLocks(g, accept, root) ==
    Append(WalkLocksFrom(g, accept, root, 1, <<Lock(root)>>), Unlock(root))

\* the graphs walked: the acyclic ones of the evaluation and of the Operate
\* calls, and (delay 0.25 0.5 0.5 (lpf 0.5 0.5 (rand 1)))
WalkGraphs ==
    {g \in Graphs \cup OperateGraphs : Acyclic(g)}
    \cup { Graph(<<DelayNew(2, 3, 3, 4, SampleRate), AugVal(Quarter), AugVal(Half),
                   LPFilterNew(3, 3, 5), RandNew(6), AugVal(Scale)>>) }

WalkInit ==
    /\ ug \in WalkGraphs
    /\ sample_rate = SampleRate
    /\ GInit /\ XInit /\ HInit /\ SInit /\ DInit

\* root.walk(&mut f) with a visitor that answers true for the nodes of accept
WalkCall ==
    /\ hret.op = "none"
    /\ \E accept \in SUBSET Allocated(ug) :
        /\ visitor' = accept
        /\ visits' = WalkAug(ug, accept, Root, 1, 0, <<>>)
        /\ locks' = WalkLocks(ug, accept, Root)
    /\ hret' = [op |-> "walk"]
    /\ UNCHANGED <<gvars, xvars, handles, strong, svars, dpc, shared_units, text, ug2, root2, parseOk>>

NextWalk == WalkCall

SpecWalk == WalkInit /\ [][NextWalk]_vars

\* --------------------------------------------------------------- handles
\* An Aug is an Arc<Mutex<UGen>>: handle h points to node handles[h].ptr
\* (0 once dropped); `from` is the handle it was cloned from, 0 for a handle
\* that came out of a constructor.  The Aug fields of a node are handles too
\* and count in the strong count of the node they point to.
Handle(ptr, from) == [ptr |-> ptr, from |-> from]
Live == {h \in 1..Len(handles) : handles[h].ptr # 0}

\* #[derive(PartialEq)] would have compared what the handles point to
AugEqDerived(g, a, b) == g[a.ptr] = g[b.ptr]

\* impl PartialEq for Aug: Arc::ptr_eq
AugEq(g, a, b) == a.ptr = b.ptr

\* the address of node n's allocation, and the hash of an address
PtrOf(n) == 4096 + 64 * n
AugHash(a) == (PtrOf(a.ptr) * 31 + 17) % 65536

\* Drop for Arc: the strong count goes down by one; at zero the node is
\* destroyed, which drops the Aug fields it holds
RECURSIVE ArcDrop(_, _), ArcDropSlots(_, _, _)
ArcDrop(st, n) ==
    LET s1 == [st EXCEPT !.strong[n] = @ - 1]
    IN IF s1.strong[n] > 0 THEN s1
       ELSE ArcDropSlots([s1 EXCEPT !.ug[n] = FreeNode], st.ug[n].slots, 1)
ArcDropSlots(st, slots, i) ==
    IF i > Len(slots) THEN st ELSE ArcDropSlots(ArcDrop(st, slots[i]), slots, i + 1)

\* Arc::clone of each of the handles to the nodes of `ptrs`
RECURSIVE ArcCloneAll(_, _, _)
ArcCloneAll(cnt, ptrs, i) ==
    IF i > Len(ptrs) THEN cnt ELSE ArcCloneAll([cnt EXCEPT ![ptrs[i]] = @ + 1], ptrs, i + 1)

\* the strong counts a builder leaves behind: one per handle and one per
\* Aug field that points to the node
HandlesOf(n) == Cardinality({h \in Live : handles[h].ptr = n})
RECURSIVE FieldsOf(_, _, _)
FieldsOf(g, n, k) ==
    IF k = 0 THEN 0
    ELSE FieldsOf(g, n, k - 1)
         + Cardinality({i \in 1..Len(g[k].slots) : g[k].slots[i] = n})

\* s = (saw a a) with a = Aug::val(0.5), and b = Aug::val(0.5) built
\* separately; the program holds s and b
HandlesInit ==
    /\ ug = Graph(<<OscNew("saw", <<2, 2>>), AugVal(Half), AugVal(Half)>>)
    /\ sample_rate = SampleRate
    /\ GInit /\ XInit /\ SInit /\ DInit
    /\ visitor = {} /\ visits = <<>>
    /\ handles = <<Handle(1, 0), Handle(3, 0)>>
    /\ strong = [n \in NodeIds |-> CASE n = 1 -> 1 [] n = 2 -> 2 [] n = 3 -> 1 [] OTHER -> 0]
    /\ hret = [op |-> "none"]

HandleStep(op) ==
    /\ nops < MaxHandleOps
    /\ nops' = nops + 1
    /\ last' = op
    /\ UNCHANGED <<tick, err, hist, ncalls, rootCalls, pre, out, rets, opres, incs,
                   xvars, visitor, visits, svars, dvars>>

\* Aug::val(v)
AugNew ==
    /\ HandleStep("new")
    /\ HasFree(ug) /\ Len(handles) < MaxHandles
    /\ \E v \in {0, Half} :
        /\ ug' = [ug EXCEPT ![Fresh(ug)] = AugVal(v)]
        /\ strong' = [strong EXCEPT ![Fresh(ug)] = 1]
        /\ handles' = Append(handles, Handle(Fresh(ug), 0))
        /\ hret' = [op |-> "new", a |-> Len(handles) + 1]

\* impl Clone for Aug
AugClone ==
    /\ HandleStep("clone")
    /\ Len(handles) < MaxHandles
    /\ \E h \in Live :
        /\ strong' = [strong EXCEPT ![handles[h].ptr] = @ + 1]
        /\ handles' = Append(handles, Handle(handles[h].ptr, h))
        /\ hret' = [op |-> "clone", a |-> h, b |-> Len(handles) + 1]
    /\ UNCHANGED ug

\* a handle goes out of scope
AugDrop ==
    /\ HandleStep("drop")
    /\ \E h \in Live :
        LET st == ArcDrop([ug |-> ug, strong |-> strong], handles[h].ptr)
        IN /\ ug' = st.ug
           /\ strong' = st.strong
           /\ handles' = [handles EXCEPT ![h].ptr = 0]
           /\ hret' = [op |-> "drop", a |-> h]

\* a == b
AugCompare ==
    /\ HandleStep("eq")
    /\ \E a \in Live, b \in Live :
        hret' = [op |-> "eq", a |-> a, b |-> b, ret |-> AugEq(ug, handles[a], handles[b])]
    /\ UNCHANGED <<ug, handles, strong>>

\* the strong count that a.hash(state) leaves behind: the clone handed to
\* Arc::into_raw is never turned back into an Arc
HashLeak(cnt, n) == [cnt EXCEPT ![n] = @ + 1]

\* impl Hash for Aug: Arc::into_raw(self.0.clone()).hash(state)
AugHashCall ==
    /\ HandleStep("hash")
    /\ \E h \in Live :
        /\ strong' = HashLeak(strong, handles[h].ptr)
        /\ hret' = [op |-> "hash", a |-> h, ret |-> AugHash(handles[h])]
    /\ UNCHANGED <<ug, handles>>

\* a.get(pname): Ok(self.p.clone()) hands out one more handle
AugGet ==
    /\ HandleStep("get")
    /\ Len(handles) < MaxHandles
    /\ \E h \in Live, pname \in {"init_ph", "freq", "src"} :
        LET r == OperateGet(ug, handles[h].ptr, pname)
        IN /\ hret' = [op |-> "get", a |-> h, res |-> r.res]
           /\ IF r.res = "Ok"
              THEN /\ strong' = [strong EXCEPT ![r.aug] = @ + 1]
                   /\ handles' = Append(handles, Handle(r.aug, 0))
              ELSE UNCHANGED <<handles, strong>>
    /\ UNCHANGED ug

\* let _ = a.dump(&shared): the UgNode holds two clones of every parameter
\* (Slot::ug and Value::Ug) and is dropped at the end of the statement
AugDump ==
    /\ HandleStep("dump")
    /\ \E h \in Live :
        LET slots == ug[handles[h].ptr].slots
            twice == slots \o slots
            st == ArcDropSlots([ug |-> ug, strong |-> ArcCloneAll(strong, twice, 1)], twice, 1)
        IN /\ ug' = st.ug
           /\ strong' = st.strong
           /\ hret' = [op |-> "dump", a |-> h]
    /\ UNCHANGED handles

NextHandles ==
    AugNew \/ AugClone \/ AugDrop \/ AugCompare \/ AugHashCall \/ AugGet \/ AugDump

SpecHandles == HandlesInit /\ [][NextHandles]_vars

\* ----------------------------------------------------------- serializer
\* the graphs dumped: a root of any operator over a pool of nodes in which
\* a Val is shared by the two slots of a saw (2 in 4), a Val is shared by
\* two rands (3 in 5 and 6), and any pool node can be shared by the root
DumpPool ==
    <<AugVal(Scale), AugVal(Half), OscNew("saw", <<2, 2>>), RandNew(3), RandNew(3),
      AugTab(<<0, Half, Scale>>)>>

PoolIds == 2..(Len(DumpPool) + 1)

DumpGraphs ==
    { Graph(<<MakeNode(op, slots)>> \o DumpPool) :
        <<op, slots>> \in UNION {{op} \X [1..Len(SlotNames(op)) -> PoolIds] : op \in OpNames} }

DumpInit ==
    ug \in DumpGraphs /\ sample_rate = SampleRate /\ GInit /\ XInit /\ HInit /\ SInit /\ DInit

\* dump(root, env)
DumpGraph ==
    /\ dpc = "idle"
    /\ shared_units' = dump(ug, Root).shared
    /\ text' = dump(ug, Root).text
    /\ locks' = DumpLocks(ug, Root)
    /\ dpc' = "dumped"
    /\ UNCHANGED <<gvars, xvars, hvars, svars, ug2, root2, parseOk>>

\* the text is read back
ParseBack ==
    /\ dpc = "dumped"
    /\ LET r == ParseText(text)
       IN /\ ug2' = r.ug
          /\ root2' = r.root
          /\ parseOk' = r.ok
    /\ dpc' = "parsed"
    /\ UNCHANGED <<gvars, xvars, hvars, svars, shared_units, text, locks>>

NextDump == DumpGraph \/ ParseBack

SpecDump == DumpInit /\ [][NextDump]_vars

\* ----------------------------------------------------- traversal frames
\* a graph that has been evaluated for some ticks is walked and dumped:
\* (delay 0.25 0.5 0.5 (lpf 0.5 0.5 (saw 0.5 1))) and (pulse s 1 (tri s 1))
\* with s = (saw 0 1) shared
FrameGraphs ==
    { Graph(<<DelayNew(2, 3, 3, 4, SampleRate), AugVal(Quarter), AugVal(Half),
              LPFilterNew(3, 3, 5), OscNew("saw", <<3, 6>>), AugVal(Scale)>>),
      Graph(<<OscNew("pulse", <<2, 3, 4>>), OscNew("saw", <<5, 3>>), AugVal(Scale),
              OscNew("tri", <<2, 3>>), AugVal(0)>>) }

FrameInit ==
    /\ ug \in FrameGraphs
    /\ sample_rate = SampleRate
    /\ GInit /\ XInit /\ HInit /\ SInit /\ DInit

NextFrame == Proc \/ Inc \/ WalkCall \/ DumpGraph

SpecFrame == FrameInit /\ [][NextFrame]_vars

\* -------------------------------------------------------------- patterns
\* str::split(ch)
RECURSIVE SplitOn(_, _)
SplitOn(d, ch) ==
    LET at == {i \in 1..Len(d) : d[i] = ch}
    IN IF at = {} THEN <<d>>
       ELSE LET i == CHOOSE j \in at : \A k \in at : j <= k
            IN <<SubSeq(d, 1, i - 1)>> \o SplitOn(SubSeq(d, i + 1, Len(d)), ch)

\* musical_time::utils::to_note: a note name (a letter a..g, an optional #,
\* an octave digit), kick or rest
NoteLetters == {"a", "b", "c", "d", "e", "f", "g"}
to_note(t) ==
    IF t = <<"k", "i", "c", "k">> THEN [ok |-> TRUE, pitch |-> <<"Kick">>]
    ELSE IF t = <<"r", "e", "s", "t">> THEN [ok |-> TRUE, pitch |-> <<"Rest">>]
    ELSE IF Len(t) = 2 /\ t[1] \in NoteLetters /\ IsDigit(t[2])
    THEN [ok |-> TRUE, pitch |-> <<"Pitch", t[1], "", DigitVal(t[2])>>]
    ELSE IF Len(t) = 3 /\ t[1] \in NoteLetters /\ t[2] = "#" /\ IsDigit(t[3])
    THEN [ok |-> TRUE, pitch |-> <<"Pitch", t[1], "#", DigitVal(t[3])>>]
    ELSE [ok |-> FALSE, pitch |-> <<>>]

\* str::parse::<u32>: an optional +, then digits, the value below 2^32 (every
\* string of up to 9 digits is; the inputs hold no longer one)
ParseU32(t) ==
    LET body == IF t # <<>> /\ t[1] = "+" THEN Tail(t) ELSE t
        ok == body # <<>> /\ (\A i \in 1..Len(body) : IsDigit(body[i]))
    IN IF ok /\ Len(body) <= 9 THEN [ok |-> TRUE, v |-> IntOf(body)]
       ELSE [ok |-> FALSE, v |-> 0]

\* Pattern::parse_str_1.  musical_time::utils::to_pos turns a division into a
\* Pos; what it does with the division 0 is open: zeroPos says whether it
\* returns a Pos or panics
PatLoop == <<"l", "o", "o", "p">>
parse_str_1(token, zeroPos) ==
    IF token = PatLoop THEN [res |-> "Ok", msg |-> <<"Loop">>]
    ELSE LET n == SplitOn(token, ":")
         IN IF Len(n) # 2 THEN [res |-> "Err", msg |-> <<>>]
            ELSE IF ~to_note(n[1]).ok THEN [res |-> "Err", msg |-> <<>>]
            ELSE IF ~ParseU32(n[2]).ok THEN [res |-> "Err", msg |-> <<>>]
            ELSE IF ParseU32(n[2]).v = 0 /\ ~zeroPos THEN [res |-> "panic", msg |-> <<>>]
            ELSE [res |-> "Ok", msg |-> <<"Note", to_note(n[1]).pitch, ParseU32(n[2]).v>>]

\* Pattern::parse_str: the tokens of data.trim().split(' ') from the i-th on
RECURSIVE PatternParseFrom(_, _, _, _)
PatternParseFrom(toks, i, msgs, zeroPos) ==
    IF i > Len(toks) THEN [res |-> "Ok", msgs |-> msgs]
    ELSE LET r == parse_str_1(toks[i], zeroPos)
         IN IF r.res = "Ok" THEN PatternParseFrom(toks, i + 1, Append(msgs, r.msg), zeroPos)
            ELSE [res |-> r.res, msgs |-> <<>>]

PatternParseStr(data, zeroPos) ==
    PatternParseFrom(Split(TrimEnd(TrimStart(data))), 1, <<>>, zeroPos)

\* the tokens the inputs are made of, the empty one included, and the inputs:
\* up to MaxToks tokens with one space between two, as they are and with a
\* space before and after
PatTokens ==
    { PatLoop, <<"c", "4", ":", "4">>, <<"d", "#", "5", ":", "8">>,
      <<"k", "i", "c", "k", ":", "4">>, <<"r", "e", "s", "t", ":", "2">>,
      <<"c", "4", ":", "0">>, <<"c", "4", ":", "+", "4">>, <<"c", "4">>,
      <<"c", "4", ":", "4", ":", "4">>, <<"h", "4", ":", "4">>, <<"c", "4", ":", "x">>, <<>> }

RECURSIVE JoinToks(_)
JoinToks(ts) ==
    IF Len(ts) = 1 THEN ts[1] ELSE ts[1] \o <<" ">> \o JoinToks(Tail(ts))

PatternInputs ==
    LET plain == UNION {{JoinToks(ts) : ts \in [1..k -> PatTokens]} : k \in 1..MaxToks}
    IN plain \cup {<<" ">> \o d \o <<" ">> : d \in plain}

PatternInit ==
    /\ ug = Graph(<<UGenNew("pat", <<>>, 0, <<>>)>>)
    /\ sample_rate = SampleRate
    /\ GInit /\ HInit /\ SInit /\ DInit
    /\ outs = <<>> /\ opre = ug /\ opret = OpRes(<<>>, "none")
    /\ opargs \in {[op |-> "parse_str", data |-> d, tick |-> 0] : d \in PatternInputs}

\* Pattern::parse_str(data)
PatternParse ==
    /\ opret.res = "none"
    /\ \E zeroPos \in BOOLEAN : opret' = PatternParseStr(opargs.data, zeroPos)
    /\ UNCHANGED <<gvars, sample_rate, outs, opargs, opre, hvars, svars, dvars>>

NextPattern == PatternParse

SpecPattern == PatternInit /\ [][NextPattern]_vars

\* ---------------------------------------------------------- filter calls
\* Signal = (f64, f64): the samples a src may return, left and right apart
StereoSamples == {<<l, r>> : l \in {0, Half, Scale}, r \in {0, Half, Scale}}

\* three filters with the same freq and q (one Val for both), each with a
\* src of its own: node 1 is fed the stereo sample, node 2 its left channel on
\* both sides, node 3 its right channel
FilterStereo == 1
FilterLeft == 2
FilterRight == 3
FilterSrc(n) == n + 4
FilterGraph ==
    Graph(<<LPFilterNew(4, 4, FilterSrc(1)), LPFilterNew(4, 4, FilterSrc(2)),
            LPFilterNew(4, 4, FilterSrc(3)), AugVal(Half),
            EgNew("None"), EgNew("None"), EgNew("None")>>)

FilterInit ==
    /\ ug = FilterGraph
    /\ sample_rate = SampleRate
    /\ tick = 1
    /\ err = "ok" /\ hist = ZeroHist /\ ncalls = ZeroHist /\ rootCalls = 0
    /\ pre = ug /\ out = <<0, 0>> /\ rets = [n \in NodeIds |-> {}]
    /\ last = "init" /\ nops = 0 /\ opres = "none" /\ incs = 0
    /\ XInit /\ HInit /\ SInit /\ DInit

\* UGen::proc of a src for tick t has returned sig: it is the node's stored
\* signal, which every further call in t returns. The src stands for any
\* signal producer; LPFilter::proc uses nothing of it but this Signal.
SrcReturned(g, n, t, sig) == [g EXCEPT ![n].last_tick = t, ![n].last_sig = sig]

\* the filters run in turn: nops calls of the round have been made
FilterTurn == nops + 1
\* what src.proc returns to the filter whose turn it is
FilterFeeds ==
    IF FilterTurn = FilterStereo THEN StereoSamples
    ELSE {Mono(outs[Len(outs)].src[nops])}

\* proc is called on the filter whose turn it is, which runs LPFilter::proc;
\* the transport moves on after the third
FilterProc ==
    /\ FilterTurn = FilterStereo => Len(outs) < MaxCalls
    /\ \E sig \in FilterFeeds :
          LET r == AugProc(Ctx(SrcReturned(ug, FilterSrc(FilterTurn), tick, sig),
                               sample_rate), FilterTurn, tick)
          IN /\ ug' = r.c.ug
             /\ err' = r.c.err
             /\ out' = IF FilterTurn = FilterStereo THEN r.sig ELSE out
             /\ outs' = IF FilterTurn = FilterStereo
                        THEN Append(outs, [src |-> sig, out |-> r.sig]) ELSE outs
    /\ pre' = IF FilterTurn = FilterStereo THEN ug ELSE pre
    /\ nops' = (nops + 1) % 3
    /\ tick' = IF FilterTurn = FilterRight THEN tick + 1 ELSE tick
    /\ last' = "proc"
    /\ UNCHANGED <<hist, ncalls, rootCalls, rets, opres, incs>>
    /\ UNCHANGED <<sample_rate, opargs, opre, opret, hvars, svars, dvars>>

NextFilter == FilterProc

SpecFilter == FilterInit /\ [][NextFilter]_vars

\* ---------------------------------------------------------------- claims
Reachable(g) == {Root} \cup Descendants(g, Root)
Called(n) == {t \in Ticks : ncalls[n][t] >= 1}
FirstCallTick(n) == CHOOSE t \in Called(n) : \A u \in Called(n) : t <= u

\* C1: for any node and any tick T the variant body runs at most once for T;
\* the first call with transport.tick = T evaluates the variant and stores
\* last_tick = T and last_sig = result, and every later call with the same
\* tick returns the stored last_sig, so that all parents of a shared node
\* read the same signal within one tick.
C1_MemoOncePerTick ==
    \A n \in NodeIds :
        /\ \A t \in Ticks : hist[n][t] <= 1
        /\ \A t \in Ticks : ncalls[n][t] >= 1 => hist[n][t] = 1
        /\ (last = "proc" /\ err = "ok" /\ ncalls[n][tick] >= 1) =>
              /\ ug[n].last_tick = tick
              /\ rets[n] = {ug[n].last_sig}

\* C2: a freshly constructed node evaluates its variant on its very first
\* proc call, also when that call is made with transport.tick = 0.
C2_FirstCallEvaluates ==
    \A n \in NodeIds : Called(n) # {} => hist[n][FirstCallTick(n)] = 1

\* C5 as stated: after a single root.proc call with tick T on an acyclic
\* graph every node reachable from the root has run its variant body exactly
\* once for T.  (Stated for T >= 1, where no memo of a fresh node is
\* mistaken for a result of T.)
C5_EveryReachableOnce ==
    (last = "proc" /\ err = "ok" /\ tick >= 1) =>
        \A n \in Reachable(pre) : hist[n][tick] = 1

\* the parameters whose proc the body of n calls
EvaluatedKids(g, n) ==
    LET s == g[n].slots
    IN CASE g[n].kind = "wavetable" -> {s[2]}
         [] g[n].kind = "oneshot" ->
                {s[2]} \cup
                (IF /\ IsOsc(g, s[1]) /\ IsEg(g, s[2])
                    /\ g[s[2]].state \in {"Attack", "Decay", "Sustin"}
                 THEN {s[1]} ELSE {})
         [] OTHER -> Kids(g, n)

RECURSIVE ActiveFrom(_, _, _)
ActiveFrom(g, S, t) ==
    LET T == S \cup {m \in UNION {EvaluatedKids(g, n) : n \in S} : g[m].last_tick # t}
    IN IF T = S THEN S ELSE ActiveFrom(g, T, t)

\* the active path of a root.proc call with tick t on the store g
Active(g, t) == IF g[Root].last_tick = t THEN {} ELSE ActiveFrom(g, {Root}, t)

\* C5 (amended): after a single root.proc call with tick T that returns, a
\* node's variant body has run exactly once for T if the node is on the
\* active path (the root, and every parameter an executed node evaluates:
\* all but a wavetable's table and the osc of a oneshot whose envelope is
\* not in Attack, Decay or Sustain) and its last_tick was not already T; it
\* has not run for T otherwise.  No node runs twice, however many parents
\* reference it.
C5_ActivePathOnce ==
    (last = "proc" /\ err = "ok") =>
        \A n \in NodeIds : hist[n][tick] = IF n \in Active(pre, tick) THEN 1 ELSE 0

\* a call at T >= 1 in which a node with several parents was called twice and
\* ran once, while another reachable node did not run at all
C5_Witness ==
    /\ last = "proc" /\ err = "ok" /\ tick >= 1
    /\ \E n \in Reachable(pre) : ncalls[n][tick] >= 2 /\ hist[n][tick] = 1
    /\ \E m \in Reachable(pre) : hist[m][tick] = 0

\* C6: proc never fails or panics on an acyclic graph, whatever successful
\* set, set_str and clear calls produced the graph.
C6_ProcNeverPanics == err # "panic"

\* C3: one callback on a buffer of 2k slots calls root.proc exactly k times
\* and advances the tick by exactly k (one proc and one inc per pair
\* written), so no evaluated sample is discarded and the ticks of the pairs
\* written are consecutive across successive callbacks.
C3_OneProcPerPair ==
    /\ apc = "done" => (2 * cbProcs = bufLen /\ 2 * cbIncs = bufLen)
    /\ \A i \in 1..(Len(wticks) - 1) : wticks[i + 1] = wticks[i] + 1

\* C4: root.proc and transport.inc of one sample run while the audio thread
\* holds both the coordination mutex and the transport lock, both are
\* released before the sample is written, the control thread never holds
\* the coordination mutex while the audio thread is between taking and
\* releasing it, and no mutation made under the coordination mutex falls
\* between a sample's proc and its inc.
C4_SampleUnderBothLocks ==
    /\ apc \in {"proc", "inc"} => (coord = "audio" /\ tlock = "audio")
    /\ apc \in {"writeL", "writeR"} => (coord # "audio" /\ tlock # "audio")
    /\ cpc \in {"locked", "mutated"} =>
          apc \notin {"transport", "proc", "inc", "unlockT", "unlockC"}
    /\ ~mutMid

\* the control thread has replaced a parameter during a callback, after a
\* sample was evaluated and before it was written
C4_Witness ==
    /\ cpc = "mutated" /\ opres = "Ok"
    /\ apc = "writeL" /\ cbProcs >= 1 /\ Len(written) < bufLen

\* ---- the text of a dump
\* the number of references to node m held by the parameters of the nodes in P
RefCount(g, P, m) ==
    Cardinality({q \in P \X (1..4) : q[2] <= Len(g[q[1]].slots) /\ g[q[1]].slots[q[2]] = m})

\* where the (def shared-<i> ...) forms start, and the index each defines
DefPos == {p \in 1..Len(text) : IsForm(text, p, "def")}
DefIndex(p) == text[p + 2].n
\* where shared-<j> tokens stand for a parameter
RefSites == {p \in 1..Len(text) : text[p].k = "shared" /\ ~(p >= 3 /\ IsForm(text, p - 2, "def"))}
\* where the form of the root starts
RootPos == CHOOSE p \in 1..Len(text) : text[p].of = Root
\* the nodes whose own form is printed somewhere in the text
Printed == {text[p].of : p \in 1..Len(text)} \ {0}
SharedSet == {shared_units[j] : j \in 1..Len(shared_units)}

\* the position of the paren closing the form opened at i
RECURSIVE CloseOf(_, _, _)
CloseOf(toks, i, depth) ==
    LET d == depth + (IF toks[i].k = "(" THEN 1 ELSE IF toks[i].k = ")" THEN -1 ELSE 0)
    IN IF d = 0 \/ i >= Len(toks) THEN i ELSE CloseOf(toks, i + 1, d)

\* C7: a node with at least 2 references in the graph has exactly one
\* (def shared-i ...) in the dump and at least 2 shared-i tokens at
\* reference sites, whatever operator slots hold the references.
C7_SharedNodeOneDef ==
    dpc # "idle" =>
        \A m \in Reachable(ug) :
            RefCount(ug, Reachable(ug), m) >= 2 =>
                /\ Cardinality({p \in DefPos : DefIndex(p) = Position(shared_units, m)}) = 1
                /\ Cardinality({p \in RefSites : text[p].n = Position(shared_units, m)}) >= 2

\* C8: shared nodes are numbered by inclusion: a shared node that is a
\* subgraph of another shared node has the smaller index, and every
\* shared-j token inside (def shared-i ...) has j < i.
C8_InclusionOrder ==
    dpc # "idle" =>
        /\ \A a, b \in 1..Len(shared_units) :
               shared_units[a] \in Descendants(ug, shared_units[b]) => a < b
        /\ \A d \in DefPos : \A p \in RefSites :
               (d < p /\ p < CloseOf(text, d, 0)) => text[p].n < DefIndex(d)

\* C9: a node of the shared list is never printed in place of a parameter:
\* its form is printed only as the body of (def shared-j ...) with j its
\* index in the list, each of its references from a printed node is one
\* shared-j token, every shared-j token has exactly one definition, and
\* all definitions come before the root form.
C9_SharedPrintedAsTokens ==
    dpc # "idle" =>
        /\ \A p \in 1..Len(text) :
               (text[p].of \in SharedSet \ {Root}) =>
                   /\ p >= 4 /\ IsForm(text, p - 3, "def")
                   /\ text[p - 1] = SharedTok(Position(shared_units, text[p].of))
        /\ \A j \in 1..Len(shared_units) :
               Cardinality({p \in RefSites : text[p].n = j - 1})
                   = RefCount(ug, Printed, shared_units[j])
        /\ \A p \in RefSites : Cardinality({d \in DefPos : DefIndex(d) = text[p].n}) = 1
        /\ \A d \in DefPos : CloseOf(text, d, 0) < RootPos

\* a dump with two definitions, a shared token inside a definition and one
\* in the root form
C9_Witness ==
    /\ dpc = "dumped"
    /\ Len(shared_units) >= 2
    /\ \E p \in RefSites : p < RootPos
    /\ \E p \in RefSites : p > RootPos

\* ---- the graph read back
\* the pairs of nodes met when g from n and h from m are walked in step
RECURSIVE PairUp(_, _, _, _)
PairUp(g, n, h, m) ==
    {<<n, m>>} \cup
    (IF g[n].kind = h[m].kind /\ Len(g[n].slots) = Len(h[m].slots)
     THEN UNION {PairUp(g, g[n].slots[i], h, h[m].slots[i]) : i \in 1..Len(g[n].slots)}
     ELSE {})

\* h from m has the nodes, the parameters and the sharing of g from n
SameGraph(g, n, h, m) ==
    LET P == PairUp(g, n, h, m)
    IN /\ \A q \in P : /\ g[q[1]].kind = h[q[2]].kind
                       /\ g[q[1]].val = h[q[2]].val
                       /\ g[q[1]].table = h[q[2]].table
                       /\ Len(g[q[1]].slots) = Len(h[q[2]].slots)
       /\ \A q, r \in P : (q[1] = r[1]) <=> (q[2] = r[2])

\* the signals of root.proc at ticks t, t + 1, ..., MaxTick
RECURSIVE Signals(_, _, _)
Signals(g, n, t) ==
    IF t > MaxTick THEN <<>>
    ELSE LET r == AugProc(Ctx(g, sample_rate), n, t)
         IN <<[sig |-> r.sig, err |-> r.c.err]>> \o Signals(r.c.ug, n, t + 1)

\* C10: reading dump(G) back succeeds and gives a graph with the sharing
\* structure and the parameters of G, and both give the same signal at
\* every tick.
C10_DumpRoundTrip ==
    dpc = "parsed" =>
        /\ parseOk
        /\ SameGraph(ug, Root, ug2, root2)
        /\ Signals(ug, Root, 0) = Signals(ug2, root2, 0)

\* ---- the transport's tick
\* C11: after N calls of Transport::inc on a new transport tick = N; tick
\* never decreases; in the sound system only the audio callback's inc step
\* changes it, by one, and that step comes exactly once after each
\* root.proc evaluation (no second proc before it, no step of the callback
\* past it while a proc still waits for its inc).
C11_TickCountsIncs ==
    /\ [](tick = incs)
    /\ [](rootCalls <= 1 /\ (rootCalls = 1 => apc \in {"inc", "dead"}))
    /\ [](apc \notin {"inc", "dead"} => cbIncs = cbProcs)
    /\ [][/\ tick' >= tick
          /\ tick' # tick => (apc = "inc" /\ rootCalls = 1 /\ tick' = tick + 1)]_vars

C11_Witness == incs = 2 /\ tick = 2 /\ apc = "unlockT" /\ cbProcs = 2

\* ---- the delay line
DelayNodes == {n \in NodeIds : ug[n].kind = "delay"}

ImpulseRun == Root \in DelayNodes /\ sample_rate = 4
\* outs agrees with the expected sequence as far as both go
OutsFollow(expected) ==
    \A i \in (DOMAIN outs) \cap (DOMAIN expected) : outs[i] = Mono(expected[i])

\* C13 as stated: with the src 1 at sample 0 only, the outputs at samples
\* 0..9 are [1, 0, 0, 0, 0.5, 0, 0, 0, 0.25, 0].
C13_ImpulseResponse ==
    (ImpulseRun /\ (IF nops = 0 THEN tick <= 1 ELSE opargs.tick = 1))
        => OutsFollow(<<Scale, 0, 0, 0, Half, 0, 0, 0, Quarter, 0>>)

\* C13, amended: dt = 1 sample; the call at tick 0 returns the initial memo
\* 0 without reading src; with the src 1 up to tick 1 and 0 afterwards the
\* outputs at ticks 1..9 are 1, then 0.5^k at tick 1 + k for k = 1..7, then 0.
C13_ImpulseResponseTaps ==
    (ImpulseRun /\ (nops = 0 \/ opargs.tick = 2))
        => OutsFollow(<<0, Scale>> \o [k \in 1..7 |-> FxPow(Half, k)] \o <<0>>)

C13_Witness ==
    /\ ImpulseRun /\ nops = 1 /\ opargs.tick = 2 /\ opres = "Ok"
    /\ Len(outs) = 10 /\ outs[3] = Mono(Half) /\ outs[10] = Mono(0)

\* ---- the saw
SawRun == ug[Root].kind = "saw" /\ sample_rate = 4

\* C14 as stated: (saw 0 1) at sample_rate = 4 outputs
\* [0, 0.25, -1.5, -1.25, -1.0, -0.75, -0.5, -0.25] on both channels.
C14_SawTable ==
    SawRun => OutsFollow(<<0, Quarter, -Scale - Half, -Scale - Quarter, -Scale,
                           -Half - Quarter, -Half, -Quarter>>)

\* C14, amended: on a new transport the call at tick 0 returns the initial
\* memo (0, 0); the samples at ticks 1..8 are
\* [0, 0.25, 0.5, 0.75, -1.0, -0.75, -0.5, -0.25] on both channels.
C14_SawSeries ==
    SawRun => OutsFollow(<<0, 0, Quarter, Half, Half + Quarter, -Scale,
                           -Half - Quarter, -Half, -Quarter>>)

C14_Witness == SawRun /\ Len(outs) = 9 /\ outs[6] = Mono(-Scale)

\* ---- the Operate calls
\* the operator the latest call was made on, the parameter its name selects
\* (0: none), and the node that parameter holds after the call
OpKind == opre[Root].kind
OpSlot == SlotIndex(OpKind, opargs.pname)
OpParam == ug[Root].slots[OpSlot]
IsUgenKind(k) == k \in OscKinds \cup EgKinds \cup ProcKinds
OkStr(r, chars) == r.res = "Ok" /\ r.str = chars
\* the store g with the parameter of the operation replaced by m; a phase
\* evaluates its parameter through its private root, which follows it
ParamReplaced(g, m) ==
    [g EXCEPT ![Root].slots[OpSlot] = m,
              ![Root].root = IF OpKind = "phase" THEN m ELSE @]

\* C15: for every operator and every parameter name of it, set(name, a)
\* returns Ok(true), replaces that parameter and nothing else, and a
\* following get(name) returns the handle a.
C15_SetThenGet ==
    (opargs.op = "set" /\ IsUgenKind(OpKind) /\ OpSlot # 0) =>
        /\ opres = "Ok"
        /\ ug = ParamReplaced(opre, opargs.m)
        /\ LET g == OperateGet(ug, Root, opargs.pname)
           IN g.res = "Ok" /\ g.aug = opargs.m

\* C16: clear(name), for every parameter name of every operator, leaves the
\* parameter a Val(0.0) node whose get_str is "0" (an empty table for the
\* table of a wavetable).
C16_ClearResets ==
    (opargs.op = "clear" /\ IsUgenKind(OpKind) /\ OpSlot # 0) =>
        IF OpKind = "wavetable" /\ opargs.pname = "table"
        THEN ug[OpParam].kind = "tab" /\ ug[OpParam].table = <<>>
        ELSE /\ ug[OpParam].kind = "val" /\ ug[OpParam].val = 0
             /\ OkStr(OperateGetStr(ug, Root, opargs.pname), <<"0">>)

\* the latest call was a set_str on a scalar parameter
ScalarSetStr ==
    /\ opargs.op = "set_str" /\ IsUgenKind(OpKind) /\ OpSlot # 0
    /\ ~(OpKind = "wavetable" /\ opargs.pname = "table")
\* what set_str on a scalar parameter does when it parses the text `parsed`
SetStrParses(parsed) ==
    IF ParseF64(parsed).ok
    THEN /\ opres = "Ok"
         /\ OpParam \notin Allocated(opre)
         /\ ug = ParamReplaced([opre EXCEPT ![OpParam] = AugVal(ParseF64(parsed).v)],
                               OpParam)
    ELSE /\ opres = "CannotParseNumber"
         /\ opret.path = <<OpKind, "/", opargs.pname>>
         /\ opret.input = parsed
         /\ ug = opre

\* C17 as stated: set_str(name, s) on a scalar parameter parses s as f64; on
\* success the parameter is a new Val of the number and Ok(true) is returned,
\* otherwise CannotParseNumber carries "<op>/<name>" and s, and the
\* parameter keeps its node.
C17_SetStrParsesInput == ScalarSetStr => SetStrParses(opargs.data)

\* C17, amended: what is parsed, and carried by the error, is s without its
\* newlines and spaces (s itself for rand).
C17_SetStrParsesStripped ==
    ScalarSetStr =>
        SetStrParses(IF OpKind = "rand" THEN opargs.data
                     ELSE Retain(opargs.data, {"\n", " "}))

C17_Witness ==
    /\ ScalarSetStr /\ OpKind = "lpf" /\ opargs.pname = "q"
    /\ opargs.data = <<"x", " ">>
    /\ opres = "CannotParseNumber" /\ opret.input = <<"x">>

\* C18: get_str(name) returns the decimal string of the value exactly when
\* the parameter is a Val and CannotRepresentAsString otherwise; after a
\* successful set_str(name, s) get_str(name) returns the string of the
\* number parsed.
C18_GetStrOfVal ==
    /\ (opargs.op = "get_str" /\ IsUgenKind(OpKind) /\ OpSlot # 0) =>
          IF ug[OpParam].kind = "val"
          THEN opres = "Ok" /\ opret.str = F64ToString(ug[OpParam].val)
          ELSE opres = "CannotRepresentAsString"
    /\ (opargs.op = "set_str" /\ opres = "Ok") =>
          /\ ug[OpParam].kind = "val"
          /\ OkStr(OperateGetStr(ug, Root, opargs.pname), F64ToString(ug[OpParam].val))

\* C19: get, get_str, set and set_str with a name that is no parameter of
\* the operator return ParamNotFound carrying "<op>/<name>" and leave the
\* store as it was.
C19_UnknownName ==
    (opargs.op \in {"get", "get_str", "set", "set_str"}
        /\ IsUgenKind(OpKind)
        /\ \A i \in DOMAIN SlotNames(OpKind) : SlotNames(OpKind)[i] # opargs.pname) =>
        /\ opres = "ParamNotFound"
        /\ opret.path = <<OpKind, "/", opargs.pname>>
        /\ ug = opre

C19_Witness ==
    /\ opargs.op = "set" /\ OpKind = "delay" /\ opargs.pname = "duty"
    /\ opres = "ParamNotFound" /\ opret.path = <<"delay", "/", "duty">>

\* C20: get, get_str, set and set_str on a node whose variant is Val, Tab or
\* Pat return NotUgen and leave the store as it was.
C20_LeafNotUgen ==
    (opargs.op \in {"get", "get_str", "set", "set_str"} /\ OpKind \in LeafKinds) =>
        opres = "NotUgen" /\ ug = opre

C20_Witness ==
    /\ opargs.op = "set" /\ OpKind = "val" /\ opargs.pname = "freq" /\ opargs.m = 3
    /\ opres = "NotUgen"

\* ---- the walker
Walked == hret.op = "walk"

\* C21: a walk from the root with a visitor that always answers true hands
\* every node reachable from the root through parameter edges to the
\* visitor at least once, whatever the kinds of the operators
C21_WalkerCoverage ==
    Walked /\ visitor = Allocated(ug)
        => \A m \in Descendants(ug, Root) : \E p \in 1..Len(visits) : visits[p].child = m

\* the calls that follow call p up to the next call that is not below it
BlockEnd(p) ==
    LET later == {q \in (p + 1)..Len(visits) : visits[q].depth <= visits[p].depth}
    IN IF later = {} THEN Len(visits) ELSE (CHOOSE q \in later : \A r \in later : q <= r) - 1

\* the nodes handed to the visitor by the walk of the node of call p
Under(p) ==
    LET block == SubSeq(visits, p + 1, BlockEnd(p))
        direct == SelectSeq(block, LAMBDA c : c.depth = visits[p].depth + 1
                                               /\ c.parent = visits[p].child)
    IN [i \in 1..Len(direct) |-> direct[i].child]

\* the nodes handed to the visitor by the walk of the root
UnderRoot ==
    LET direct == SelectSeq(visits, LAMBDA c : c.depth = 0 /\ c.parent = Root)
    IN [i \in 1..Len(direct) |-> direct[i].child]

\* C22: walk on a node calls visit once for each of its parameters, in
\* declaration order; the parameters of a child are handed over right after
\* visit answered true for it and before the next sibling, none of them
\* when visit answered false; val, tab and pat nodes hand over nothing
C22_WalkOrder ==
    Walked =>
        /\ UnderRoot = ug[Root].slots
        /\ \A p \in 1..Len(visits) :
            IF visits[p].ret
            THEN /\ Under(p) = ug[visits[p].child].slots
                 /\ \A q \in (p + 1)..BlockEnd(p) : visits[q].depth > visits[p].depth
            ELSE BlockEnd(p) = p
        /\ \A p \in 1..Len(visits) : ug[visits[p].parent].kind \notin LeafKinds

\* ---- the handles
\* C23: two handles compare equal iff they point to the same node: a clone
\* equals the handle it was cloned from, handles to two nodes built
\* separately are unequal whatever the nodes hold, the relation is
\* reflexive, symmetric and transitive, and equal handles have equal hashes
C23_EqualIffSameNode ==
    /\ \A a \in Live, b \in Live :
        /\ AugEq(ug, handles[a], handles[b]) <=> handles[a].ptr = handles[b].ptr
        /\ handles[b].from = a => AugEq(ug, handles[b], handles[a])
        /\ AugEq(ug, handles[a], handles[a])
        /\ AugEq(ug, handles[a], handles[b]) => AugEq(ug, handles[b], handles[a])
        /\ AugEq(ug, handles[a], handles[b]) => AugHash(handles[a]) = AugHash(handles[b])
        /\ \A c \in Live :
            AugEq(ug, handles[a], handles[b]) /\ AugEq(ug, handles[b], handles[c])
                => AugEq(ug, handles[a], handles[c])
    /\ hret.op = "eq" => hret.ret = (handles[hret.a].ptr = handles[hret.b].ptr)

\* a handle was compared with a handle to another node of the same content
\* and with its own clone
C23_Witness ==
    /\ hret.op = "eq" /\ ~hret.ret
    /\ ug[handles[hret.a].ptr] = ug[handles[hret.b].ptr]
    /\ \E b \in Live : handles[b].from = hret.a

\* C24: after any sequence of handle operations the strong count of every
\* node is the number of live handles to it (those the program holds and the
\* Aug fields of live nodes), and the node exists exactly while that number
\* is not zero
C24_CountIsLiveHandles ==
    \A n \in NodeIds :
        /\ strong[n] = HandlesOf(n) + FieldsOf(ug, n, MaxNodes)
        /\ (ug[n].kind # "free") <=> (HandlesOf(n) + FieldsOf(ug, n, MaxNodes) > 0)

\* ---- the leaves
\* C25: whatever the tick of the transport, every proc call on a Val(v)
\* node returns (v, v) and every proc call on a Tab or Pat node returns
\* (0, 0)
C25_LeafSignals ==
    /\ \A n \in NodeIds :
        /\ pre[n].kind = "val" => rets[n] \subseteq {Mono(pre[n].val)}
        /\ pre[n].kind \in {"tab", "pat"} => rets[n] \subseteq {<<0, 0>>}
    /\ \A i \in DOMAIN outs :
        /\ ug[Root].kind = "val" => outs[i] = Mono(ug[Root].val)
        /\ ug[Root].kind \in {"tab", "pat"} => outs[i] = <<0, 0>>

\* ---- the interleaved buffer
\* C26: slot 2i holds the left and slot 2i+1 the right channel of the i-th
\* sample the callback evaluated; the callback writes no slot beyond the
\* buffer and, when it has ended, has filled every slot, the last one of an
\* odd-length buffer with a left channel; a callback starts at slot 0 with
\* the left channel of its first sample whatever the callback before did
C26_InterleavedSlots ==
    /\ Len(written) <= bufLen
    /\ \A j \in 1..Len(written) :
        /\ written[j].ch = (IF j % 2 = 1 THEN "l" ELSE "r")
        /\ written[j].i = (j - 1) \div 2 + 1
        /\ j % 2 = 0 => written[j].t = written[j - 1].t
    /\ apc = "done" /\ cbProcs > 0 => Len(written) = bufLen

\* a callback with an odd buffer has ended on a left slot and the callback
\* after it has written its first pair
C26_Witness ==
    /\ Len(oddBufs) >= 2 /\ oddBufs[Len(oddBufs) - 1]
    /\ Len(written) >= 2 /\ written[1].ch = "l" /\ written[2].ch = "r"

\* ---- the node mutexes
\* C27: on an acyclic graph, shared nodes included, root.proc never locks a
\* node mutex that the evaluating thread holds at that moment
C27_NoRelock == Acyclic(pre) => err # "relock"

\* ---- one call of the delay
\* the root is a delay and its latest proc call, at the current tick, ran
\* Delay::proc
DelayCalled ==
    /\ pre[Root].kind = "delay" /\ rootCalls = 1 /\ err = "ok"
    /\ pre[Root].last_tick # tick

\* what the proc call of the i-th parameter of the delay returned
DelayParam(i) == CHOOSE sig \in rets[pre[Root].slots[i]] : TRUE

\* the src sample of the call at tick t: 1 as long as the impulse is on
SrcAt(t) ==
    IF t < 1 THEN 0
    ELSE IF nops = 0 \/ t < opargs.tick THEN Scale ELSE 0

\* sum over the taps n..1 of buffer[n * dt] * fb^n, channel ch
RECURSIVE TapSum(_, _, _, _, _)
TapSum(buffer, dt, fb, n, ch) ==
    IF n = 0 THEN 0
    ELSE FxMul(buffer[n * dt + 1][ch], FxPow(fb, n)) + TapSum(buffer, dt, fb, n - 1, ch)

\* the number of taps: the largest n with n * dt < buffer.len()
Taps(buffer, dt) ==
    IF dt = 0 THEN 0 ELSE Cardinality({n \in 1..Len(buffer) : n * dt < Len(buffer)})

\* C28: a Delay::proc call drops the oldest entry of the buffer and puts the
\* src sample of the call at index 0, so that buffer[k] is the src sample of
\* k calls earlier and zero before the first call; it returns
\* src + mix * sum over n >= 1, n * dt < buffer.len() of buffer[n * dt] *
\* feedback^n with dt = floor(sample_rate * time), which is src when dt = 0
C28_DelayCall ==
    DelayCalled =>
        LET before == pre[Root].buffer
            buffer == ug[Root].buffer
            src == DelayParam(4)
            dt == FxFloor(sample_rate * DelayParam(1)[1]) \div Scale
            fb == DelayParam(2)[1]
            mix == DelayParam(3)[1]
            N == Taps(buffer, dt)
        IN /\ buffer = <<src>> \o SubSeq(before, 1, Len(before) - 1)
           /\ \A k \in 0..(Len(buffer) - 1) : buffer[k + 1] = Mono(SrcAt(tick - k))
           /\ out = <<src[1] + FxMul(mix, TapSum(buffer, dt, fb, N, 1)),
                      src[2] + FxMul(mix, TapSum(buffer, dt, fb, N, 2))>>
           /\ dt = 0 => out = src

\* a call that finds the impulse four samples back in the buffer
C28_Witness ==
    /\ DelayCalled /\ sample_rate = 4 /\ tick = 5 /\ nops = 1 /\ opargs.tick = 2
    /\ out = Mono(FxPow(Half, 4))

\* ---- the one-shot oscillator
OneshotOsc == ug[Root].slots[1]
OneshotEg == ug[Root].slots[2]
\* the latest proc call on the root, at the current tick, ran OneshotOsc::proc
OneshotCalled ==
    /\ pre[Root].kind = "oneshot" /\ rootCalls = 1 /\ err = "ok"
    /\ pre[Root].last_tick # tick

\* C29: a OneshotOsc::proc call that finds the envelope in Release or None
\* returns (0, 0) and leaves the phase of the oscillator at 0 and the
\* envelope in None; from then on the envelope stays in None and every
\* sample is zero as long as nobody calls set_state
C29_ReleaseResets ==
    /\ [](OneshotCalled /\ pre[OneshotEg].state \in {"Release", "None"}
            => /\ out = <<0, 0>>
               /\ ug[OneshotOsc].ph = 0
               /\ ug[OneshotEg].state = "None")
    /\ [][ug[OneshotEg].state = "None" /\ last' # "set_state"
            => /\ ug'[OneshotEg].state = "None"
               /\ outs' # outs => outs'[Len(outs')] = <<0, 0>>]_vars

\* a call that found the envelope in Release and the phase advanced
C29_Witness ==
    /\ OneshotCalled /\ pre[OneshotEg].state = "Release" /\ pre[OneshotOsc].ph > 0
    /\ ug[OneshotOsc].ph = 0 /\ ug[OneshotEg].state = "None" /\ out = <<0, 0>>

\* C30: a OneshotOsc::proc call that finds the envelope in Attack, Decay or
\* Sustain returns the sample of the oscillator for the tick; the call in
\* which the phase of the oscillator reaches 1.0 puts the phase back to 0
\* and the envelope to None, so that no call returns a sample of the
\* oscillator taken at a phase of 1.0 or more
C30_ResetOnCrossing ==
    OneshotCalled /\ pre[OneshotEg].state \in {"Attack", "Decay", "Sustin"}
        => /\ rets[OneshotOsc] # {} /\ \A sig \in rets[OneshotOsc] : out = Mono(sig[1])
           /\ ug[OneshotOsc].ph < Scale
           /\ pre[OneshotOsc].ph < Scale

\* ---- the phase of the oscillators
\* the tri, saw and pulse nodes of the graph, all of them evaluated whenever
\* the root is
PhaseOscs == {k \in NodeIds : pre[k].kind \in {"tri", "saw", "pulse"}}
\* freq / (2 * sample_rate), for the freq the latest call read
Advance(k) == TruncDiv((CHOOSE sig \in rets[pre[k].slots[2]] : TRUE)[1], 2 * sample_rate)
SawWave(x) == IF 2 * x >= Scale THEN 2 * x - 2 * Scale ELSE 2 * x

\* C31: a tri, saw or pulse node computes its sample from the phase it held
\* before the call and advances the phase once per evaluated tick by
\* freq / (2 * sample_rate), also when several parents refer to it; after
\* the root was evaluated for n consecutive ticks the phase is n times that
\* advance
C31_PhaseAdvance ==
    (rootCalls = 1 /\ err = "ok" /\ ug[Root].kind \in {"saw", "pulse"}) =>
        \A k \in PhaseOscs :
            /\ ug[k].last_tick = tick
            /\ pre[k].last_tick # tick => ug[k].ph = pre[k].ph + Advance(k)
            /\ pre[k].last_tick = tick => ug[k].ph = pre[k].ph
            /\ ug[k].kind = "saw" /\ pre[k].last_tick # tick
                => rets[k] = {Mono(SawWave(FxRem1(pre[k].ph)))}
            /\ rets[pre[k].slots[2]] # {} => ug[k].ph = Len(outs) * Advance(k)

\* ---- the sample-and-hold noise
\* the root is a (rand f) of a constant f, whose floor is RandPeriod
RandRoot == ug[Root].kind = "rand"
RandPeriod == AsU64(ug[ug[Root].slots[1]].val)
UnitRange(sig) == \A i \in 1..2 : sig[i] >= 0 /\ sig[i] < Scale

\* C32: with a constant freq f >= 0 a Rand node draws a new value of [0, 1)
\* and resets its counter when the counter has reached floor(f), and
\* otherwise repeats its value and increments the counter; the counter never
\* passes floor(f), floor(f) held samples lie between two draws, and every
\* sample, those before the first draw included, is in [0, 1)
C32_RandHold ==
    /\ [](RandRoot =>
            /\ ug[Root].count <= RandPeriod
            /\ UnitRange(Mono(ug[Root].v))
            /\ \A i \in 1..Len(outs) : UnitRange(outs[i])
            /\ rootCalls = 1 /\ tick >= 1
                => ug[Root].draws * (RandPeriod + 1) + ug[Root].count = tick)
    /\ [][RandRoot /\ outs' # outs /\ ug[Root].last_tick # tick =>
            IF ug[Root].count = RandPeriod
            THEN /\ ug'[Root].count = 0
                 /\ ug'[Root].draws = ug[Root].draws + 1
                 /\ ug'[Root].v = RngGen(ug[Root].draws)
                 /\ out' = Mono(ug'[Root].v)
            ELSE /\ ug'[Root].count = ug[Root].count + 1
                 /\ ug'[Root].draws = ug[Root].draws
                 /\ ug'[Root].v = ug[Root].v
                 /\ out' = Mono(ug[Root].v)]_vars

\* a draw that follows two held samples of the previous draw
C32_Witness ==
    /\ RandRoot /\ RandPeriod = 2 /\ rootCalls = 1
    /\ ug[Root].draws = 2 /\ ug[Root].count = 0 /\ pre[Root].count = 2
    /\ out = Mono(RngGen(1)) /\ out # outs[Len(outs) - 1]
    /\ outs[Len(outs) - 1] = outs[Len(outs) - 2]
    /\ outs[Len(outs) - 2] = Mono(RngGen(0))

\* ---- termination of the callback
\* C33: with an acyclic graph and a control thread that releases the
\* coordination mutex after finitely many steps, every invocation of the
\* audio callback returns with every slot of its buffer written, and the
\* two threads never block each other for good (up to the last tick of
\* the model, where the callback is left where it is)
C33_CallbackTerminates ==
    (apc # "done" /\ Acyclic(ug)) ~> (\/ apc = "done" /\ Len(written) = bufLen
                                      \/ tick > MaxTick)

\* ---- a poisoned coordination mutex
Silent(i) == written[i].t = -1

\* C34: when lock() on the coordination mutex fails in the callback because
\* the mutex is poisoned, the callback writes (0, 0) for that stereo pair,
\* does not evaluate the graph and does not advance the tick; it still
\* fills the whole buffer and returns
C34_PoisonedSilence ==
    /\ [][coord = "poisoned" /\ apc = "loop" =>
            /\ apc' = "writeL" /\ sample'.l = 0 /\ sample'.r = 0 /\ sample'.t = -1
            /\ UNCHANGED <<ug, tick, incs, rootCalls, cbProcs, cbIncs, written>>]_vars
    /\ [][sample.t = -1 /\ apc \in {"writeL", "writeR"} =>
            /\ UNCHANGED <<ug, tick, incs, rootCalls, cbProcs, cbIncs>>
            /\ written' # written =>
                 /\ written' = Append(written, written'[Len(written')])
                 /\ written'[Len(written')].v = 0]_vars
    /\ [](\A i \in 1..Len(written) : Silent(i) => written[i].v = 0)
    /\ [](apc = "done" => Len(written) = bufLen)
    /\ (coord = "poisoned" /\ apc # "done") ~> (apc = "done" /\ Len(written) = bufLen)

\* a callback on four slots that evaluated its first pair and found the mutex
\* poisoned from the second pair on
C34_Witness ==
    /\ coord = "poisoned" /\ apc = "done" /\ bufLen = 4 /\ Len(written) = 4
    /\ ~Silent(1) /\ ~Silent(2) /\ Silent(3) /\ Silent(4)
    /\ written[3].v = 0 /\ written[4].v = 0
    /\ cbProcs = 1 /\ cbIncs = 1

\* ---- traversals leave the graph alone
\* the locks held while the events of a traversal are replayed; ok is FALSE
\* when a lock is taken that is already held
RECURSIVE Replay(_, _, _)
Replay(ev, i, held) ==
    IF i > Len(ev) THEN [ok |-> TRUE, held |-> held]
    ELSE IF ev[i].op = "lock"
         THEN IF ev[i].n \in held THEN [ok |-> FALSE, held |-> held]
              ELSE Replay(ev, i + 1, held \cup {ev[i].n})
         ELSE Replay(ev, i + 1, held \ {ev[i].n})

WalkStep == hret.op = "none" /\ hret'.op = "walk"
DumpStep == dpc = "idle" /\ dpc' = "dumped"

\* C35: dump and walk do not modify the graph: parameters, phases, filter
\* and delay histories, last_tick and last_sig of every node are after the
\* call what they were before it, and every node lock the traversal took
\* has been released
C35_TraversalFrame ==
    [][WalkStep \/ DumpStep =>
          /\ ug' = ug
          /\ Len(locks') >= 2
          /\ Replay(locks', 1, {}) = [ok |-> TRUE, held |-> {}]]_vars

\* a dump and a walk of the delay graph after two samples, with the shared
\* 0.5 defined once and a sample in the histories of the filter and the delay
C35_Witness ==
    /\ dpc = "dumped" /\ hret.op = "walk" /\ visitor = Allocated(ug)
    /\ ug[Root].kind = "delay" /\ tick = 1 /\ rootCalls = 1
    /\ ug[Root].buffer[1] # <<0, 0>> /\ ug[4].inbuf[1] # <<0, 0>> /\ ug[5].ph > 0
    /\ shared_units = <<3>>
    /\ Len(locks) > 2 * Cardinality(Allocated(ug))

\* ---- the chain of a Phase
PhaseRan(n) ==
    /\ last = "proc" /\ err = "ok"
    /\ pre[n].kind = "phase" /\ pre[n].last_tick # tick /\ ug[n].last_tick = tick

\* C36: after Phase::new, set("osc", u) and a successful set_str("osc", s)
\* the chain Phase::proc evaluates (offset 1.0 of gain 0.5 of clip [-1, 1])
\* is built over the current osc parameter: the sample of Phase::proc is
\* derived from the sample of the node get("osc") returns
C36_PhaseChain ==
    \A n \in NodeIds :
        /\ ug[n].kind = "phase" =>
              /\ ug[n].root = ug[n].slots[1]
              /\ OperateGet(ug, n, "osc").res = "Ok"
                    => OperateGet(ug, n, "osc").aug = ug[n].root
        /\ PhaseRan(n) =>
              \E sig \in rets[OperateGet(ug, n, "osc").aug] :
                  ug[n].last_sig = <<PhaseRoot(sig[1]), PhaseRoot(sig[2])>>

\* a set("osc", ..) or set_str("osc", ..) gave the phase of
\* (wavetable (table 0 0.5 1) (phase (saw 1 1))) another osc, and the next
\* sample is computed from it
C36_Witness ==
    /\ PhaseRan(3) /\ nops = 1 /\ ug[3].slots[1] # 4 /\ ug[3].root = ug[3].slots[1]
    /\ pre[3].slots[1] = ug[3].slots[1]
    /\ ug[3].last_sig = <<PhaseRoot(ug[ug[3].root].last_sig[1]),
                          PhaseRoot(ug[ug[3].root].last_sig[2])>>
    /\ ug[3].last_sig # <<0, 0>>

\* ---- patterns
PatTokensOf(data) == Split(TrimEnd(TrimStart(data)))

\* a token as the grammar has it: loop, or <pitch>:<length> with a note name,
\* kick or rest and a positive integer
PatTokenValid(t) ==
    \/ t = PatLoop
    \/ /\ Len(SplitOn(t, ":")) = 2
       /\ to_note(SplitOn(t, ":")[1]).ok
       /\ ParseU32(SplitOn(t, ":")[2]).ok /\ ParseU32(SplitOn(t, ":")[2]).v > 0

\* C37: Pattern::parse_str splits its input on single spaces and succeeds
\* only if every token is "loop" or <pitch>:<length> with a valid pitch and
\* a positive integer length; a malformed token makes the whole parse fail
\* with no partial result
C37_PatternParse ==
    opret.res # "none" =>
        LET toks == PatTokensOf(opargs.data)
        IN IF \A i \in 1..Len(toks) : PatTokenValid(toks[i])
           THEN opret.res = "Ok" /\ Len(opret.msgs) = Len(toks)
           ELSE opret.res = "Err" /\ opret.msgs = <<>>

\* ---- tables from text
TableSetStr ==
    /\ opargs.op = "set_str" /\ opargs.pname = "table" /\ opre[Root].kind = "wavetable"

\* the tokens Table::parse_str sees: WaveTable::set_str drops the newlines,
\* parse_str trims the text and splits it on spaces
TableTokens == Split(TrimEnd(TrimStart(Retain(opargs.data, {"\n"}))))

\* C38: Table::parse_str splits its input on spaces and returns the numbers
\* in input order when every token parses as f64, and returns nothing, no
\* partial table either, when a token is not a number; when it fails inside
\* WaveTable::set_str the table parameter is left as it was
C38_TableParse ==
    TableSetStr =>
        IF \A i \in 1..Len(TableTokens) : ParseF64(TableTokens[i]).ok
        THEN /\ opres = "Ok"
             /\ ug[ug[Root].slots[1]].kind = "tab"
             /\ ug[ug[Root].slots[1]].table
                    = [i \in 1..Len(TableTokens) |-> ParseF64(TableTokens[i]).v]
        ELSE /\ opres = "CannotParseNumber"
             /\ ug = opre

\* set_str("table", "0 x") on a wavetable: the 0 in front is not kept
C38_Witness ==
    /\ TableSetStr /\ opargs.data = <<"0", " ", "x">>
    /\ opres = "CannotParseNumber"
    /\ ug[Root].slots[1] = opre[Root].slots[1]
    /\ ug[ug[Root].slots[1]].table = opre[opre[Root].slots[1]].table
    /\ ug[ug[Root].slots[1]].table # <<>>

\* C39: LPFilter keeps exactly two input and two output samples per channel;
\* after each LPFilter::proc call inbuf[0] and outbuf[0] hold that call's src
\* sample and output and inbuf[1] and outbuf[1] those of the call before (the
\* zeros of LPFilter::new before the second call); the left output is the one
\* a filter fed only the left channel computes, and the right output the one
\* a filter fed only the right channel computes.
PrevCall(k) == IF k = 1 THEN [src |-> <<0, 0>>, out |-> <<0, 0>>] ELSE outs[k - 1]
C39_LPFilterHistory ==
    outs # <<>> =>
        LET k == Len(outs)
            me == ug[FilterStereo]
        IN /\ \A n \in {FilterStereo, FilterLeft, FilterRight} :
                 /\ Len(ug[n].inbuf) = 2 /\ Len(ug[n].outbuf) = 2
                 /\ \A i \in 1..2 : Len(ug[n].inbuf[i]) = 2 /\ Len(ug[n].outbuf[i]) = 2
           /\ me.inbuf[1] = outs[k].src
           /\ me.outbuf[1] = outs[k].out
           /\ me.inbuf[2] = PrevCall(k).src
           /\ me.outbuf[2] = PrevCall(k).out
           /\ nops = 0 =>
                 /\ outs[k].out[1] = ug[FilterLeft].outbuf[1][1]
                 /\ outs[k].out[2] = ug[FilterRight].outbuf[1][2]
C39_Witness ==
    /\ Len(outs) >= 2 /\ nops = 0
    /\ outs[Len(outs)].src[1] # outs[Len(outs)].src[2]
    /\ outs[Len(outs) - 1].src[1] # outs[Len(outs) - 1].src[2]
    /\ outs[Len(outs)].out[1] # outs[Len(outs)].out[2]
    /\ outs[Len(outs) - 1].out[1] # 0
    /\ ug[FilterStereo].outbuf[2][1] # ug[FilterStereo].outbuf[2][2]

====
